---- MODULE Spec2Model ----
(***************************************************************************)
(* Statement-to-TSV converters of mjc-tax-utils: the line scanners of the  *)
(* CBA account, home loan, youth saver and Mastercard parsers and of the   *)
(* NAB offset parser, as state machines over a document held in memory.    *)
(*                                                                         *)
(* A document is a sequence of pages, a page a sequence of lines.  A line  *)
(* is a record [k, d, mon, y, v, s]: k is the shape of its text, the other *)
(* fields carry what the regular expressions of the code read from it.     *)
(* Money is counted in cents, so "within 0.01" is equality.                *)
(*                                                                         *)
(*   k          text of the line                  fields                   *)
(*   "stmt"     "Your Statement  Smart Access"                             *)
(*   "notice"   "Yours sincerely, The CommBank team"                       *)
(*   "period"   "24 Aug 2020 - 31 Dec 2020"       y (of the first date)    *)
(*   "hdr"      "Date Transaction Debit ..."                               *)
(*   "label"    a column label ("Debit")          s                        *)
(*   "date"     "31 Dec"                          d, mon                   *)
(*   "dateyear" "31 Dec 2020"                     d, mon, y                *)
(*   "text"     words, no digits ("AFTERPAY")     s                        *)
(*   "neg"      "-104.99"                         v                        *)
(*   "num"      "104.99"                          v                        *)
(*   "dollar"   "$11,884.29"                      v                        *)
(*   "bal"      "$11,884.29 CR"                   v, s ("CR" or "DR")      *)
(*   "minus"    "7.60-"                           v                        *)
(*   "paren"    "(300.00)"                        v                        *)
(*   "longnum"  "12345678901"                     v                        *)
(*   "txnskw"   "Transactions"                                             *)
(*   "datelbl"  "Date"                                                     *)
(*   "detail"   "Transaction details"                                      *)
(*   "intpur"   "Interest charged on purchases"                            *)
(*   "intcash"  "Interest charged on cash advances"                        *)
(*   "rate"     "Purchase Rate 20.240%p.a."                                *)
(*   "nabstmt"  "National Australia Bank ..."                              *)
(*   "opening"  "Opening balance"                                          *)
(*   "nabhdr"   "Date Particulars Debits Credits Balance"                  *)
(*   "dots"     "Shop ....... 10.00"              v, d (dots), s (words)   *)
(*   "crdr"     "CR" or "DR"                      s                        *)
(*   "dotsonly" "........"                                                 *)
(*   "carried"  "Carried forward"                                          *)
(*   "brought"  "Brought forward"                                          *)
(*   "stars"    "***************"                                          *)
(*   "info"     "If a charge is incorrect ..."                             *)
(***************************************************************************)
EXTENDS Integers, Sequences, FiniteSets, TLC

VARIABLES exchange_rate_cache, rate_call, main, parser, doc, period_end_date, pc, page_idx, i, table_started, header_found,
          current_year, last_month, formatted_date, rows,
          opening_balance, running_balance, processed_dates,
          current_transaction, transactions_started, date_header_found

vars == <<exchange_rate_cache, rate_call, main, parser, doc, period_end_date, pc, page_idx, i, table_started, header_found,
          current_year, last_month, formatted_date, rows,
          opening_balance, running_balance, processed_dates,
          current_transaction, transactions_started, date_header_found>>

(* Python's None and a present value. *)
None == <<>>

Some(x) == <<x>>

Val(o) == o[1]

Ln(k, d, mon, y, v, s) == [k |-> k, d |-> d, mon |-> mon, y |-> y, v |-> v, s |-> s]

Stmt == Ln("stmt", 0, "", 0, 0, "")

Notice == Ln("notice", 0, "", 0, 0, "")

Period(y) == Ln("period", 0, "", y, 0, "")

Hdr == Ln("hdr", 0, "", 0, 0, "")

Label(s) == Ln("label", 0, "", 0, 0, s)

DateTok(d, mon) == Ln("date", d, mon, 0, 0, "")

DateYearTok(d, mon, y) == Ln("dateyear", d, mon, y, 0, "")

Text(s) == Ln("text", 0, "", 0, 0, s)

Neg(v) == Ln("neg", 0, "", 0, v, "")

Num(v) == Ln("num", 0, "", 0, v, "")

Dollar(v) == Ln("dollar", 0, "", 0, v, "")

Bal(v, s) == Ln("bal", 0, "", 0, v, s)

Minus(v) == Ln("minus", 0, "", 0, v, "")

Paren(v) == Ln("paren", 0, "", 0, v, "")

(* The value of a digit string of more than ten digits: larger than every
   amount of the model; it is only copied and compared with 0. *)
LongValue == 2000000000

LongNum == Ln("longnum", 0, "", 0, LongValue, "")

TxnsKw == Ln("txnskw", 0, "", 0, 0, "")

DateLbl == Ln("datelbl", 0, "", 0, 0, "")

Detail == Ln("detail", 0, "", 0, 0, "")

IntPur == Ln("intpur", 0, "", 0, 0, "")

IntCash == Ln("intcash", 0, "", 0, 0, "")

Rate == Ln("rate", 0, "", 0, 0, "")

NabStmt == Ln("nabstmt", 0, "", 0, 0, "")

Opening == Ln("opening", 0, "", 0, 0, "")

NabHdr == Ln("nabhdr", 0, "", 0, 0, "")

Dots(s, d, v) == Ln("dots", d, "", 0, v, s)

DotsOnly == Ln("dotsonly", 0, "", 0, 0, "")

Stars == Ln("stars", 0, "", 0, 0, "")

CrDr(s) == Ln("crdr", 0, "", 0, 0, s)

Carried == Ln("carried", 0, "", 0, 0, "")

Brought == Ln("brought", 0, "", 0, 0, "")

(* month_map of every parser; "sept" never matches the three-letter group. *)
MonthMap == [jan |-> 1, feb |-> 2, mar |-> 3, apr |-> 4, may |-> 5, jun |-> 6,
             jul |-> 7, aug |-> 8, sep |-> 9, oct |-> 10, nov |-> 11, dec |-> 12]

MonthGet(mon) == IF mon \in DOMAIN MonthMap THEN Some(MonthMap[mon]) ELSE None

Date(d, m, y) == [d |-> d, m |-> m, y |-> y]

(* parse_date_dd_mmm without the roll-over of the year. *)
ParseDateDdMmmNoRollover(d, mon, cy, lm) ==
    LET mn == MonthGet(mon) IN
    IF mn = None THEN None ELSE Some(Date(d, Val(mn), cy))

(* parse_date_dd_mmm on a "DD Mon" string: the formatted date or None. *)
ParseDateDdMmm(d, mon, cy, lm) ==
    LET mn == MonthGet(mon) IN
    IF mn = None THEN None
    ELSE Some(Date(d, Val(mn), IF lm # None /\ Val(mn) < Val(lm) THEN cy + 1 ELSE cy))

Abs(x) == IF x < 0 THEN -x ELSE x

Lines == IF page_idx <= Len(doc) THEN doc[page_idx] ELSE <<>>

(***************************************************************************)
(* What the regular expressions and substring tests of the parsers answer  *)
(* on each shape of line.                                                  *)
(***************************************************************************)

(* Texts that hold "dr" or "cr" in lower case. *)
DrCrTexts == {"Direct Credit"}

(* Texts that hold "opening balance" or "closing balance" in lower case. *)
BalanceMarkerTexts == {"Opening Balance", "Closing Balance", "CLOSING BALANCE"}

(* re.search(r'[a-zA-Z]', line) *)
HasLetters(l) ==
    \/ l.k \in {"stmt", "notice", "period", "hdr", "label", "date", "dateyear", "text", "bal",
                "txnskw", "datelbl", "detail", "intpur", "intcash", "rate",
                "nabstmt", "opening", "nabhdr", "crdr", "carried", "brought",
                "info"}
    \/ l.k = "dots" /\ l.s # ""

(* any(re.search(pattern, line_lower) for pattern in skip_line_patterns) *)
IsSkipLine(l) == l.k = "ratenote"

(* 'date' in line_lower and 'transaction' in line_lower *)
IsHeaderLine(l) == l.k = "hdr"

(* line_lower.strip() == 'date' *)
IsDateLabel(l) == l.k = "datelbl"

(* The words a column label holds as substrings. *)
LabelWords(s) ==
    IF s = "debits" THEN {"debits", "debit"}
    ELSE IF s = "credits" THEN {"credits", "credit"}
    ELSE {s}

(* the substring tests of the multi-line header on the four lines after "Date" *)
HoldsWord(l, w) ==
    \/ l.k = "hdr" /\ w \in {"date", "transaction", "debit", "credit", "balance"}
    \/ l.k = "label" /\ w \in LabelWords(l.s)
    \/ l.k = "detail" /\ w = "transaction"
    \/ l.k = "nabhdr" /\ w \in {"date", "particulars", "debits", "debit",
                                "credits", "credit", "balance"}
    \/ l.k = "opening" /\ w = "balance"
    \/ l.k = "text" /\ l.s \in BalanceMarkerTexts \cup {"Balance"} /\ w = "balance"
    \/ l.k = "text" /\ l.s = "Direct Credit" /\ w = "credit"

(* re.match(r'^(\d{1,2}\s+[A-Za-z]{3})', line): a line that begins like a date *)
StartsLikeDate(l) == l.k \in {"date", "dateyear"}

(* re.search(r'(DR|CR)', line, re.I), and 'dr' in line_lower or 'cr' in line_lower *)
HasDrCr(l) ==
    \/ l.k \in {"bal", "crdr", "hdr", "nabhdr"}
    \/ l.k = "label" /\ l.s \in {"credit", "credits"}
    \/ l.k = "text" /\ l.s \in DrCrTexts

(* line.strip().startswith('$') *)
StartsWithDollar(l) == l.k \in {"dollar", "bal"}

(* balance_match: a number followed by DR or CR (searched, case-insensitive) *)
BalanceMatch(l) == l.k = "bal"

(* parse_balance_with_dr_cr(line): <<value or None, is_debit>> *)
ParseBalanceWithDrCr(l) ==
    IF l.k = "bal" THEN <<Some(l.v), l.s = "DR">>
    ELSE IF l.k \in {"num", "dollar"} THEN <<Some(l.v), FALSE>>
    ELSE <<None, FALSE>>

(* 'opening balance' in trans_lower or 'closing balance' in trans_lower, on
   the lines of the description joined with blanks: one line holds the words,
   or two lines that follow each other make them. *)
IsBalanceMarker(parts) ==
    \/ \E n \in 1..Len(parts) : parts[n].k = "text" /\ parts[n].s \in BalanceMarkerTexts
    \/ \E n \in 1..(Len(parts) - 1) :
           /\ parts[n].k = "text" /\ parts[n].s \in {"Opening", "Closing"}
           /\ parts[n + 1].k = "text" /\ parts[n + 1].s = "Balance"

(* The statement page test of parse_transactions in the account parser. *)
IsStatementPage(page) == \E n \in 1..Len(page) : page[n].k = "stmt"

(* is_notice_letter_page *)
IsNoticeLetterPage(page) == \E n \in 1..Len(page) : page[n].k = "notice"

(* first_statement_page_idx: the first page that is no notice letter and holds
   statement content, or None. *)
FirstStatementPage(d) ==
    LET ok == {p \in 1..Len(d) : ~IsNoticeLetterPage(d[p]) /\ IsStatementPage(d[p])}
    IN IF ok = {} THEN None ELSE Some(CHOOSE p \in ok : \A q \in ok : p <= q)

(***************************************************************************)
(* CBA account parser: cba/cba_account2tsv.py                              *)
(***************************************************************************)

(* The date branch of the scan loop: the formatted date, current_year after
   the branch (the year-bearing branch assigns it before parsing). *)
AccountDateOf(l, cy, lm) ==
    IF l.k = "dateyear"
    THEN [fd |-> ParseDateDdMmm(l.d, l.mon, l.y, lm), cy |-> l.y]
    ELSE IF l.k = "date"
    THEN [fd |-> ParseDateDdMmm(l.d, l.mon, cy, lm), cy |-> cy]
    ELSE [fd |-> None, cy |-> cy]

(* The collection loop: the index of the line that ends the block begun at i. *)
RECURSIVE AccountCollectEnd(_, _)
AccountCollectEnd(ls, j) ==
    IF j > Len(ls) THEN j
    ELSE IF StartsLikeDate(ls[j]) \/ IsSkipLine(ls[j]) THEN j
    ELSE AccountCollectEnd(ls, j + 1)

(* First pass: description lines; returns where the amounts begin. *)
RECURSIVE AccountFirstPass(_, _, _)
AccountFirstPass(cl, idx, parts) ==
    IF idx > Len(cl) THEN [idx |-> idx, parts |-> parts]
    ELSE
      LET l == cl[idx]
          hasNext == idx + 1 <= Len(cl)
          stop == [idx |-> idx, parts |-> parts]
          take == AccountFirstPass(cl, idx + 1, Append(parts, l))
      IN
      IF HasLetters(l) THEN take
      ELSE IF l.k \in {"neg", "paren"} THEN stop
      ELSE IF l.k \in {"num", "dollar"}
                /\ (\/ hasNext /\ (HasDrCr(cl[idx + 1]) \/ StartsWithDollar(cl[idx + 1]))
                    \/ parts # <<>>)
           THEN stop
      ELSE take

(* Second pass, the placement of an unsigned number. *)
AccountPlace(st, amt) ==
    IF st.parts # <<>> /\ st.debit = None /\ st.credit = None
    THEN IF amt = 0 THEN [st EXCEPT !.balance = Some(amt), !.bdr = FALSE]
         ELSE [st EXCEPT !.credit = Some(amt)]
    ELSE IF st.debit # None /\ st.credit = None
    THEN IF amt = 0 THEN [st EXCEPT !.balance = Some(amt), !.bdr = FALSE]
         ELSE [st EXCEPT !.credit = Some(amt)]
    ELSE IF st.credit # None /\ st.balance = None
    THEN [st EXCEPT !.balance = Some(amt), !.bdr = FALSE]
    ELSE IF st.balance = None /\ st.parts = <<>>
    THEN IF st.credit = None THEN [st EXCEPT !.credit = Some(amt)]
         ELSE [st EXCEPT !.balance = Some(amt), !.bdr = FALSE]
    ELSE IF st.parts # <<>> /\ st.balance = None
    THEN [st EXCEPT !.balance = Some(amt), !.bdr = FALSE]
    ELSE st

(* Second pass: amounts and balance from the remaining lines. *)
RECURSIVE AccountSecondPass(_, _, _)
AccountSecondPass(cl, idx, st) ==
    IF idx > Len(cl) THEN st
    ELSE
      LET l == cl[idx]
          pb == ParseBalanceWithDrCr(l)
      IN
      IF l.k \in {"neg", "paren"}
      THEN AccountSecondPass(cl, idx + 1,
               IF st.debit = None THEN [st EXCEPT !.debit = Some(l.v)] ELSE st)
      ELSE IF BalanceMatch(l) \/ HasDrCr(l)
      THEN AccountSecondPass(cl, idx + 1, [st EXCEPT !.balance = pb[1], !.bdr = pb[2]])
      ELSE IF l.k = "longnum"
      THEN AccountSecondPass(cl, idx + 1,
               IF st.parts # <<>> THEN [st EXCEPT !.parts = Append(@, l)] ELSE st)
      ELSE IF l.k \in {"num", "dollar"}
      THEN AccountSecondPass(cl, idx + 1, AccountPlace(st, l.v))
      ELSE AccountSecondPass(cl, idx + 1, [st EXCEPT !.parts = Append(@, l)])

(* The block classifier: both passes over the collected lines. *)
AccountClassify(cl) ==
    LET fp == AccountFirstPass(cl, 1, <<>>)
    IN AccountSecondPass(cl, fp.idx,
           [parts |-> fp.parts, debit |-> None, credit |-> None,
            balance |-> None, bdr |-> FALSE])

(* The amount were the sign of a debit forgotten. *)
SignedAmountNoSign(st) ==
    IF st.debit # None /\ Val(st.debit) > 0 THEN Some(Val(st.debit))
    ELSE IF st.credit # None /\ Val(st.credit) > 0 THEN Some(Val(st.credit))
    ELSE None

(* amount: either debit or credit, not both *)
SignedAmount(st) ==
    IF st.debit # None /\ Val(st.debit) > 0 THEN Some(-Val(st.debit))
    ELSE IF st.credit # None /\ Val(st.credit) > 0 THEN Some(Val(st.credit))
    ELSE None

(* The balance were the DR suffix ignored. *)
SignedBalanceNoDr(st) ==
    IF st.balance = None THEN None ELSE Some(Abs(Val(st.balance)))

(* balance: negative for DR, positive otherwise *)
SignedBalance(st) ==
    IF st.balance = None THEN None
    ELSE IF st.bdr THEN Some(-Abs(Val(st.balance))) ELSE Some(Abs(Val(st.balance)))

(* The rows after the block, were a balance marker emitted like any other
   description. *)
AccountEmitKeepsMarkers(rs, fd, st) ==
    IF SignedAmount(st) # None \/ SignedBalance(st) # None
    THEN Append(rs, [date |-> fd, transaction |-> st.parts,
                     amount |-> SignedAmount(st), balance |-> SignedBalance(st)])
    ELSE rs

(* The rows after the block: none for a balance marker or an empty block. *)
AccountEmit(rs, fd, st) ==
    IF IsBalanceMarker(st.parts) THEN rs
    ELSE IF SignedAmount(st) # None \/ SignedBalance(st) # None
    THEN Append(rs, [date |-> fd, transaction |-> st.parts,
                     amount |-> SignedAmount(st), balance |-> SignedBalance(st)])
    ELSE rs

(* The multi-line header test: "Date", then within the next four lines
   'transaction', 'debit' or 'credit', and 'balance'. *)
AccountMultiHeader(ls, n) ==
    /\ IsDateLabel(ls[n])
    /\ n + 4 <= Len(ls)
    /\ \E q \in 1..4 : HoldsWord(ls[n + q], "transaction")
    /\ \E q \in 1..4 : HoldsWord(ls[n + q], "debit") \/ HoldsWord(ls[n + q], "credit")
    /\ \E q \in 1..4 : HoldsWord(ls[n + q], "balance")

AccountAtLine == parser = "account" /\ pc = "scan" /\ i <= Len(Lines)

(* if not header_found: the header line, or the multi-line header *)
AccountHeader ==
    /\ AccountAtLine
    /\ ~IsSkipLine(Lines[i])
    /\ ~header_found
    /\ IsHeaderLine(Lines[i]) \/ AccountMultiHeader(Lines, i)
    /\ header_found' = TRUE
    /\ table_started' = TRUE
    /\ i' = IF IsHeaderLine(Lines[i]) THEN i + 4 ELSE i + 5
    /\ UNCHANGED <<exchange_rate_cache, rate_call, main, parser, doc, period_end_date, pc, page_idx, current_year, last_month,
                   formatted_date, rows, opening_balance, running_balance,
                   processed_dates, current_transaction, transactions_started,
                   date_header_found>>

AccountInTable ==
    /\ AccountAtLine
    /\ ~IsSkipLine(Lines[i])
    /\ table_started

(* A line that starts no block: a skipped line, a line before the table, or a
   line in the table that yields no date. *)
AccountScanLine ==
    /\ AccountAtLine
    /\ IF AccountInTable
       THEN LET r == AccountDateOf(Lines[i], current_year, last_month) IN
            /\ r.fd = None
            /\ current_year' = r.cy
            /\ formatted_date' = None
       ELSE /\ IsSkipLine(Lines[i])
               \/ ~(IsHeaderLine(Lines[i]) \/ AccountMultiHeader(Lines, i))
            /\ UNCHANGED <<current_year, formatted_date>>
    /\ i' = i + 1
    /\ UNCHANGED <<exchange_rate_cache, rate_call, main, parser, doc, period_end_date, pc, page_idx, table_started, header_found,
                   last_month, rows, opening_balance, running_balance,
                   processed_dates, current_transaction, transactions_started,
                   date_header_found>>

(* A date token in the table: the cursor moves, the block is collected,
   classified and emitted, and the scan resumes at the line that ended it. *)
AccountDateBlock ==
    /\ AccountInTable
    /\ LET r == AccountDateOf(Lines[i], current_year, last_month)
           j == AccountCollectEnd(Lines, i + 1)
           st == AccountClassify(SubSeq(Lines, i + 1, j - 1))
       IN /\ r.fd # None
          /\ formatted_date' = r.fd
          /\ current_year' = Val(r.fd).y
          /\ last_month' = Some(Val(r.fd).m)
          /\ rows' = AccountEmit(rows, r.fd, st)
          /\ i' = j
    /\ UNCHANGED <<exchange_rate_cache, rate_call, main, parser, doc, period_end_date, pc, page_idx, table_started, header_found,
                   opening_balance, running_balance, processed_dates,
                   current_transaction, transactions_started, date_header_found>>

(* The page step, were the header state kept from page to page. *)
AccountNextPageKeepsHeader ==
    /\ parser = "account" /\ pc = "scan" /\ i > Len(Lines)
    /\ IF page_idx < Len(doc)
       THEN /\ page_idx' = page_idx + 1
            /\ i' = 1
            /\ pc' = pc
       ELSE /\ pc' = "done"
            /\ UNCHANGED <<page_idx, i>>
    /\ UNCHANGED <<exchange_rate_cache, rate_call, main, parser, doc, period_end_date, current_year, last_month, formatted_date, rows,
                   opening_balance, running_balance, processed_dates,
                   current_transaction, transactions_started, date_header_found,
                   table_started, header_found>>

(* for page_idx in range(start_page_idx, len(doc)): the header state is per page *)
AccountNextPage ==
    /\ parser = "account" /\ pc = "scan" /\ i > Len(Lines)
    /\ IF page_idx < Len(doc)
       THEN /\ page_idx' = page_idx + 1
            /\ i' = 1
            /\ table_started' = FALSE
            /\ header_found' = FALSE
            /\ pc' = pc
       ELSE /\ pc' = "done"
            /\ UNCHANGED <<page_idx, i, table_started, header_found>>
    /\ UNCHANGED <<exchange_rate_cache, rate_call, main, parser, doc, period_end_date, current_year, last_month, formatted_date, rows,
                   opening_balance, running_balance, processed_dates,
                   current_transaction, transactions_started, date_header_found>>

(***************************************************************************)
(* CBA home loan parser: cba/cba_homeloan2tsv.py                           *)
(***************************************************************************)

(* any(block in line_lower for block in skip_blocks) *)
IsSkipBlockLine(l) == l.k = "borrowers"

(* date_pattern.match(line): a line that is a day and three letters only *)
IsDateOnly(l) == l.k = "date"

RECURSIVE HomeLoanCollectEnd(_, _)
HomeLoanCollectEnd(ls, j) ==
    IF j > Len(ls) THEN j
    ELSE IF IsDateOnly(ls[j]) \/ IsSkipLine(ls[j]) THEN j
    ELSE HomeLoanCollectEnd(ls, j + 1)

(* The placement of an unsigned number (amt > 0 only). *)
HomeLoanPlace(st, amt) ==
    IF amt <= 0 THEN st
    ELSE IF st.parts # <<>> /\ st.debit = None /\ st.credit = None
    THEN [st EXCEPT !.credit = Some(amt)]
    ELSE IF st.debit # None /\ st.credit = None
    THEN [st EXCEPT !.credit = Some(amt)]
    ELSE IF st.credit # None /\ st.balance = None
    THEN [st EXCEPT !.balance = Some(amt), !.bdr = FALSE]
    ELSE IF st.balance = None /\ st.parts = <<>>
    THEN IF st.credit = None THEN [st EXCEPT !.credit = Some(amt)]
         ELSE [st EXCEPT !.balance = Some(amt), !.bdr = FALSE]
    ELSE st

RECURSIVE HomeLoanPass(_, _, _)
HomeLoanPass(cl, idx, st) ==
    IF idx > Len(cl) THEN st
    ELSE
      LET l == cl[idx]
          pb == ParseBalanceWithDrCr(l)
      IN
      IF l.k = "nil" THEN HomeLoanPass(cl, idx + 1, st)
      ELSE IF l.k = "neg"
      THEN HomeLoanPass(cl, idx + 1,
               IF st.debit = None THEN [st EXCEPT !.debit = Some(l.v)] ELSE st)
      ELSE IF BalanceMatch(l) \/ HasDrCr(l)
      THEN HomeLoanPass(cl, idx + 1, [st EXCEPT !.balance = pb[1], !.bdr = pb[2]])
      ELSE IF l.k \in {"num", "dollar", "longnum"}
      THEN HomeLoanPass(cl, idx + 1, HomeLoanPlace(st, l.v))
      ELSE HomeLoanPass(cl, idx + 1, [st EXCEPT !.parts = Append(@, l)])

HomeLoanClassify(cl) ==
    HomeLoanPass(cl, 1, [parts |-> <<>>, debit |-> None, credit |-> None,
                         balance |-> None, bdr |-> FALSE])

(* start_page_idx: the page after the first statement page, page 2 when there
   is none or when that page is past the end. *)
HomeLoanStartPage(d) ==
    LET fsp == FirstStatementPage(d)
        start == IF fsp # None THEN Val(fsp) + 1 ELSE 2
    IN IF start > Len(d) THEN 2 ELSE start

HomeLoanAtLine == parser = "homeloan" /\ pc = "scan" /\ i <= Len(Lines)

HomeLoanSkipped(l) == IsSkipBlockLine(l) \/ IsSkipLine(l)

HomeLoanHeader ==
    /\ HomeLoanAtLine
    /\ ~HomeLoanSkipped(Lines[i])
    /\ ~header_found
    /\ IsHeaderLine(Lines[i]) \/ AccountMultiHeader(Lines, i)
    /\ header_found' = TRUE
    /\ table_started' = TRUE
    /\ i' = i + 5
    /\ UNCHANGED <<exchange_rate_cache, rate_call, main, parser, doc, period_end_date, pc, page_idx, current_year, last_month,
                   formatted_date, rows, opening_balance, running_balance,
                   processed_dates, current_transaction, transactions_started,
                   date_header_found>>

HomeLoanInTable ==
    /\ HomeLoanAtLine
    /\ ~HomeLoanSkipped(Lines[i])
    /\ table_started

HomeLoanDateOf(l, cy, lm) ==
    IF IsDateOnly(l) THEN ParseDateDdMmm(l.d, l.mon, cy, lm) ELSE None

HomeLoanScanLine ==
    /\ HomeLoanAtLine
    /\ IF HomeLoanInTable
       THEN /\ HomeLoanDateOf(Lines[i], current_year, last_month) = None
            /\ formatted_date' = IF IsDateOnly(Lines[i]) THEN None ELSE formatted_date
       ELSE /\ HomeLoanSkipped(Lines[i])
               \/ ~(IsHeaderLine(Lines[i]) \/ AccountMultiHeader(Lines, i))
            /\ UNCHANGED formatted_date
    /\ i' = i + 1
    /\ UNCHANGED <<exchange_rate_cache, rate_call, main, parser, doc, period_end_date, pc, page_idx, table_started, header_found,
                   current_year, last_month, rows, opening_balance,
                   running_balance, processed_dates, current_transaction,
                   transactions_started, date_header_found>>

HomeLoanDateBlock ==
    /\ HomeLoanInTable
    /\ LET fd == HomeLoanDateOf(Lines[i], current_year, last_month)
           j == HomeLoanCollectEnd(Lines, i + 1)
           st == HomeLoanClassify(SubSeq(Lines, i + 1, j - 1))
       IN /\ fd # None
          /\ formatted_date' = fd
          /\ current_year' = Val(fd).y
          /\ last_month' = Some(Val(fd).m)
          /\ rows' = AccountEmit(rows, fd, st)
          /\ i' = j
    /\ UNCHANGED <<exchange_rate_cache, rate_call, main, parser, doc, period_end_date, pc, page_idx, table_started, header_found,
                   opening_balance, running_balance, processed_dates,
                   current_transaction, transactions_started, date_header_found>>

HomeLoanNextPage ==
    /\ parser = "homeloan" /\ pc = "scan" /\ i > Len(Lines)
    /\ IF page_idx < Len(doc)
       THEN /\ page_idx' = page_idx + 1
            /\ i' = 1
            /\ table_started' = FALSE
            /\ header_found' = FALSE
            /\ pc' = pc
       ELSE /\ pc' = "done"
            /\ UNCHANGED <<page_idx, i, table_started, header_found>>
    /\ UNCHANGED <<exchange_rate_cache, rate_call, main, parser, doc, period_end_date, current_year, last_month, formatted_date, rows,
                   opening_balance, running_balance, processed_dates,
                   current_transaction, transactions_started, date_header_found>>

(***************************************************************************)
(* CBA youth saver parser: cba/cba_youthsaver2tsv.py                       *)
(***************************************************************************)

(* '+ in' in line_lower and '- out' in line_lower *)
IsInOutHeader(l) == l.k = "inout"

(* The header tests of the youth saver scan loop. *)
YouthSaverHeaderAt(ls, n) ==
    \/ IsHeaderLine(ls[n])
    \/ IsInOutHeader(ls[n])
    \/ /\ IsDateLabel(ls[n])
       /\ n + 4 <= Len(ls)
       /\ \/ HoldsWord(ls[n + 1], "transaction")
          \/ \E q \in 1..4 : IsInOutHeader(ls[n + q])
          \/ /\ \E q \in 1..4 : HoldsWord(ls[n + q], "transaction")
             /\ \E q \in 1..4 : HoldsWord(ls[n + q], "out")
             /\ \E q \in 1..4 : HoldsWord(ls[n + q], "balance")

(* The collection loop stops at a date, a date with a year, or a date followed
   by text. *)
RECURSIVE YouthSaverCollectEnd(_, _)
YouthSaverCollectEnd(ls, j) ==
    IF j > Len(ls) THEN j
    ELSE IF ls[j].k \in {"date", "dateyear"} \/ IsSkipLine(ls[j]) THEN j
    ELSE YouthSaverCollectEnd(ls, j + 1)

(* A line that ends in the word DR or CR, or holds a $ number followed by it. *)
YouthSaverDrCrSuffix(l) == l.k \in {"bal", "crdr"}

(* Pattern 5, the placement of a standalone number.  prev_was_blank implies
   saw_blank_after_transaction: the blank line it finds was read with the same
   description and no amount, which set the flag, and only a debit resets it. *)
YouthSaverPlace(st, amt) ==
    IF amt <= 0 THEN st
    ELSE IF st.parts # <<>> /\ st.credit = None /\ st.debit = None
    THEN IF st.blank
         THEN [st EXCEPT !.debit = Some(amt), !.blank = FALSE]
         ELSE [st EXCEPT !.credit = Some(amt)]
    ELSE IF st.credit # None /\ st.debit = None
    THEN [st EXCEPT !.debit = Some(amt)]
    ELSE IF st.credit # None /\ st.debit # None /\ st.balance = None
    THEN [st EXCEPT !.balance = Some(amt), !.bdr = FALSE]
    ELSE IF st.balance = None /\ st.parts = <<>>
    THEN IF st.credit = None THEN [st EXCEPT !.credit = Some(amt)]
         ELSE IF st.debit = None THEN [st EXCEPT !.debit = Some(amt)]
         ELSE [st EXCEPT !.balance = Some(amt), !.bdr = FALSE]
    ELSE st

RECURSIVE YouthSaverPass(_, _, _)
YouthSaverPass(cl, idx, st) ==
    IF idx > Len(cl) THEN st
    ELSE
      LET l == cl[idx]
          pb == ParseBalanceWithDrCr(l)
      IN
      IF l.k = "nil"
      THEN YouthSaverPass(cl, idx + 1,
               IF st.parts # <<>> /\ st.credit = None /\ st.debit = None
               THEN [st EXCEPT !.blank = TRUE] ELSE st)
      ELSE IF BalanceMatch(l) \/ YouthSaverDrCrSuffix(l)
      THEN YouthSaverPass(cl, idx + 1, [st EXCEPT !.balance = pb[1], !.bdr = pb[2]])
      ELSE IF l.k = "neg"
      THEN YouthSaverPass(cl, idx + 1,
               IF l.v > 0 /\ st.debit = None THEN [st EXCEPT !.debit = Some(l.v)] ELSE st)
      ELSE IF l.k = "longnum" THEN YouthSaverPass(cl, idx + 1, st)
      ELSE IF l.k = "num"
      THEN YouthSaverPass(cl, idx + 1, YouthSaverPlace(st, l.v))
      ELSE IF l.k = "dollar"
      THEN YouthSaverPass(cl, idx + 1,
               IF l.v > 0 /\ st.balance = None
               THEN [st EXCEPT !.balance = Some(l.v), !.bdr = FALSE] ELSE st)
      ELSE YouthSaverPass(cl, idx + 1, [st EXCEPT !.parts = Append(@, l)])

YouthSaverClassify(cl) ==
    YouthSaverPass(cl, 1, [parts |-> <<>>, debit |-> None, credit |-> None,
                           balance |-> None, bdr |-> FALSE, blank |-> FALSE])

(* prev_balance: the balance of the last emitted row that has one, or None. *)
PrevBalance(rs) ==
    LET known == {n \in 1..Len(rs) : rs[n].balance # None}
    IN IF known = {} THEN None
       ELSE rs[CHOOSE n \in known : \A q \in known : q <= n].balance

(* The amount of a youth saver block: a debit, a credit checked against the
   change of balance, or the change of balance itself.  The balance compared
   is the figure as parsed, before its DR sign is applied. *)
YouthSaverAmount(rs, st) ==
    LET prev == PrevBalance(rs) IN
    IF st.debit # None /\ Val(st.debit) > 0 THEN Some(-Val(st.debit))
    ELSE IF st.credit # None /\ Val(st.credit) > 0
    THEN IF st.balance # None /\ Len(rs) > 0
         THEN IF prev # None
              THEN IF (Val(st.balance) - Val(prev)) + Val(st.credit) = 0
                   THEN Some(-Val(st.credit))
                   ELSE Some(Val(st.credit))
              ELSE None
         ELSE Some(Val(st.credit))
    ELSE IF st.balance # None /\ Len(rs) > 0 /\ prev # None
    THEN Some(Val(st.balance) - Val(prev))
    ELSE None

YouthSaverEmit(rs, fd, st) ==
    IF IsBalanceMarker(st.parts) THEN rs
    ELSE IF YouthSaverAmount(rs, st) # None \/ SignedBalance(st) # None
    THEN Append(rs, [date |-> fd, transaction |-> st.parts,
                     amount |-> YouthSaverAmount(rs, st), balance |-> SignedBalance(st)])
    ELSE rs

YouthSaverAtLine == parser = "youthsaver" /\ pc = "scan" /\ i <= Len(Lines)

YouthSaverHeader ==
    /\ YouthSaverAtLine
    /\ ~IsSkipLine(Lines[i])
    /\ ~header_found
    /\ YouthSaverHeaderAt(Lines, i)
    /\ header_found' = TRUE
    /\ table_started' = TRUE
    /\ i' = i + 5
    /\ UNCHANGED <<exchange_rate_cache, rate_call, main, parser, doc, period_end_date, pc, page_idx, current_year, last_month,
                   formatted_date, rows, opening_balance, running_balance,
                   processed_dates, current_transaction, transactions_started,
                   date_header_found>>

YouthSaverInTable ==
    /\ YouthSaverAtLine
    /\ ~IsSkipLine(Lines[i])
    /\ table_started

YouthSaverScanLine ==
    /\ YouthSaverAtLine
    /\ IF YouthSaverInTable
       THEN LET r == AccountDateOf(Lines[i], current_year, last_month) IN
            /\ r.fd = None
            /\ current_year' = r.cy
            /\ formatted_date' = None
       ELSE /\ IsSkipLine(Lines[i]) \/ ~YouthSaverHeaderAt(Lines, i)
            /\ UNCHANGED <<current_year, formatted_date>>
    /\ i' = i + 1
    /\ UNCHANGED <<exchange_rate_cache, rate_call, main, parser, doc, period_end_date, pc, page_idx, table_started, header_found,
                   last_month, rows, opening_balance, running_balance,
                   processed_dates, current_transaction, transactions_started,
                   date_header_found>>

YouthSaverDateBlock ==
    /\ YouthSaverInTable
    /\ LET r == AccountDateOf(Lines[i], current_year, last_month)
           j == YouthSaverCollectEnd(Lines, i + 1)
           st == YouthSaverClassify(SubSeq(Lines, i + 1, j - 1))
       IN /\ r.fd # None
          /\ formatted_date' = r.fd
          /\ current_year' = Val(r.fd).y
          /\ last_month' = Some(Val(r.fd).m)
          /\ rows' = YouthSaverEmit(rows, r.fd, st)
          /\ i' = j
    /\ UNCHANGED <<exchange_rate_cache, rate_call, main, parser, doc, period_end_date, pc, page_idx, table_started, header_found,
                   opening_balance, running_balance, processed_dates,
                   current_transaction, transactions_started, date_header_found>>

YouthSaverNextPage ==
    /\ parser = "youthsaver" /\ pc = "scan" /\ i > Len(Lines)
    /\ IF page_idx < Len(doc)
       THEN /\ page_idx' = page_idx + 1
            /\ i' = 1
            /\ table_started' = FALSE
            /\ header_found' = FALSE
            /\ pc' = pc
       ELSE /\ pc' = "done"
            /\ UNCHANGED <<page_idx, i, table_started, header_found>>
    /\ UNCHANGED <<exchange_rate_cache, rate_call, main, parser, doc, period_end_date, current_year, last_month, formatted_date, rows,
                   opening_balance, running_balance, processed_dates,
                   current_transaction, transactions_started, date_header_found>>

(***************************************************************************)
(* CBA Mastercard parser: cba/cba_mastercard2tsv.py                        *)
(***************************************************************************)

(* range(i + 1, min(i + 15, len(lines))) and range(i + 1, min(i + 20, ...)) *)
InterestLookahead == 15

CashAdvanceLookahead == 20

Min(a, b) == IF a < b THEN a ELSE b

(* 'transactions' in line.lower() *)
HoldsTransactions(l) == l.k = "txnskw"

(* 'transaction' in lines[i+1].lower() or 'details' in lines[i+1].lower() *)
HoldsTransactionOrDetails(l) ==
    \/ l.k \in {"txnskw", "detail", "hdr"}
    \/ l.k = "label" /\ l.s = "transaction"

(* date_pattern.match(line): two digits and three letters, nothing else *)
IsCardDate(l) == l.k = "date"

(* amount_pattern.match(line): a bare number, with or without a trailing minus *)
IsCardAmount(l) == l.k \in {"num", "minus"}

(* 'interest charged on purchases' in line.lower() *)
IsTableEnd(l) == l.k = "intpur"

(* '%' in lines[j] *)
HasPercent(l) == l.k = "rate"

(* number_pattern.findall(line)[-1] as an amount, or None without a number *)
LastNumber(l) ==
    IF l.k = "date" THEN Some(l.d * 100)
    ELSE IF l.k = "dateyear" THEN Some(l.y * 100)
    ELSE IF l.k \in {"num", "neg", "minus", "dollar", "bal", "dots"} THEN Some(l.v)
    ELSE None

(* The look-ahead for an interest amount: the first line of lo..hi without a
   percentage that holds a number. *)
RECURSIVE InterestAmount(_, _, _)
InterestAmount(ls, lo, hi) ==
    IF lo > hi THEN None
    ELSE IF ~HasPercent(ls[lo]) /\ LastNumber(ls[lo]) # None THEN LastNumber(ls[lo])
    ELSE InterestAmount(ls, lo + 1, hi)

(* The line "Interest charged on cash advances" within the look-ahead, or None. *)
CashAdvanceLine(ls, n) ==
    LET found == {q \in (n + 1)..Min(n + CashAdvanceLookahead - 1, Len(ls)) :
                     ls[q].k = "intcash"}
    IN IF found = {} THEN None ELSE Some(CHOOSE q \in found : \A r \in found : q <= r)

(* The running balance after an amount, were a credit taken as a debit. *)
CardBalanceDebitOnly(rb, amount, is_cred) == rb - amount

(* The running balance after an amount: a credit adds, a debit subtracts. *)
CardBalance(rb, amount, is_cred) == IF is_cred THEN rb + amount ELSE rb - amount

CardRow(fd, parts, amount, is_cred, rb) ==
    [date |-> fd, transaction |-> parts, amount |-> amount, is_credit |-> is_cred,
     balance |-> rb]

(* write_tsv: the amount column, positive for a credit, negative for a debit *)
WriteTsvAmount(row) == IF row.is_credit THEN row.amount ELSE -row.amount

(* if current_transaction and current_transaction[2] *)
CardPending(ct) == ct # None /\ Val(ct).amt # None

(* The pending transaction finalised by the table end and by the end of a
   page: a row only with a date, no move of the date cursor. *)
CardFinalise(rs, rb, ct, cy, lm) ==
    LET fd == ParseDateDdMmm(Val(ct).d, Val(ct).mon, cy, lm)
        nb == CardBalance(rb, Val(Val(ct).amt), Val(ct).is_cred)
    IN IF CardPending(ct) /\ fd # None
       THEN [rows |-> Append(rs, CardRow(fd, Val(ct).parts, Val(Val(ct).amt),
                                         Val(ct).is_cred, nb)),
             rb |-> nb]
       ELSE [rows |-> rs, rb |-> rb]

(* interest_date: the period end, else the date of the last row, else a default *)
InterestDate(rs) ==
    IF period_end_date # None THEN period_end_date
    ELSE IF rs # <<>> THEN rs[Len(rs)].date
    ELSE Some(Date(1, 1, 2023))

(* An interest row, when the look-ahead found an amount. *)
CardInterest(r, amount, l) ==
    IF amount = None THEN r
    ELSE [rows |-> Append(r.rows, CardRow(InterestDate(r.rows), <<l>>, Val(amount),
                                          FALSE, r.rb - Val(amount))),
          rb |-> r.rb - Val(amount)]

MastercardAtLine == parser = "mastercard" /\ pc = "scan" /\ i <= Len(Lines)

MastercardInTable == MastercardAtLine /\ transactions_started /\ date_header_found

(* if not transactions_started: wait for the "Transactions" keyword *)
MastercardStart ==
    /\ MastercardAtLine
    /\ ~transactions_started
    /\ transactions_started' = HoldsTransactions(Lines[i])
    /\ i' = i + 1
    /\ UNCHANGED <<exchange_rate_cache, rate_call, main, parser, doc, period_end_date, pc, page_idx, table_started,
                   header_found, current_year, last_month, formatted_date, rows,
                   opening_balance, running_balance, processed_dates,
                   current_transaction, date_header_found>>

(* if not date_header_found: "Date" followed by "Transaction details" *)
MastercardDateHeader ==
    /\ MastercardAtLine
    /\ transactions_started
    /\ ~date_header_found
    /\ LET found == /\ IsDateLabel(Lines[i])
                    /\ i + 1 <= Len(Lines)
                    /\ HoldsTransactionOrDetails(Lines[i + 1])
       IN /\ date_header_found' = found
          /\ i' = IF found THEN i + 3 ELSE i + 1
    /\ UNCHANGED <<exchange_rate_cache, rate_call, main, parser, doc, period_end_date, pc, page_idx, table_started,
                   header_found, current_year, last_month, formatted_date, rows,
                   opening_balance, running_balance, processed_dates,
                   current_transaction, transactions_started>>

(* A date line: the pending transaction is finalised with its own date, the
   date cursor follows it, and a new transaction starts. *)
MastercardDateLine ==
    /\ MastercardInTable
    /\ IsCardDate(Lines[i])
    /\ LET ct == current_transaction
           fd == ParseDateDdMmm(Val(ct).d, Val(ct).mon, current_year, last_month)
           nb == CardBalance(Val(running_balance), Val(Val(ct).amt), Val(ct).is_cred)
       IN IF CardPending(ct)
          THEN /\ formatted_date' = fd
               /\ current_year' = IF fd # None THEN Val(fd).y ELSE current_year
               /\ last_month' = IF fd # None THEN Some(Val(fd).m) ELSE last_month
               /\ running_balance' = Some(nb)
               /\ rows' = Append(rows, CardRow(fd, Val(ct).parts, Val(Val(ct).amt),
                                               Val(ct).is_cred, nb))
          ELSE UNCHANGED <<formatted_date, current_year, last_month,
                           running_balance, rows>>
    /\ current_transaction' = Some([d |-> Lines[i].d, mon |-> Lines[i].mon,
                                    parts |-> <<>>, amt |-> None, is_cred |-> FALSE])
    /\ i' = i + 1
    /\ UNCHANGED <<exchange_rate_cache, rate_call, main, parser, doc, period_end_date, pc, page_idx, table_started,
                   header_found, opening_balance, processed_dates,
                   transactions_started, date_header_found>>

(* An amount line under a date: the amount of the transaction, a credit when
   the minus follows the number. *)
MastercardAmountLine ==
    /\ MastercardInTable
    /\ ~IsCardDate(Lines[i])
    /\ IsCardAmount(Lines[i])
    /\ current_transaction # None
    /\ current_transaction' = Some([Val(current_transaction) EXCEPT
                                       !.amt = Some(Lines[i].v),
                                       !.is_cred = (Lines[i].k = "minus")])
    /\ i' = i + 1
    /\ UNCHANGED <<exchange_rate_cache, rate_call, main, parser, doc, period_end_date, pc, page_idx, table_started,
                   header_found, current_year, last_month, formatted_date, rows,
                   opening_balance, running_balance, processed_dates,
                   transactions_started, date_header_found>>

(* "Interest charged on purchases": the pending transaction is finalised, the
   two interest rows are added, and the scan of the page ends. *)
MastercardTableEnd ==
    /\ MastercardInTable
    /\ IsTableEnd(Lines[i])
    /\ LET r0 == CardFinalise(rows, Val(running_balance), current_transaction,
                              current_year, last_month)
           hi == Min(i + InterestLookahead - 1, Len(Lines))
           r1 == CardInterest(r0, InterestAmount(Lines, i + 1, hi), IntPur)
           cl == CashAdvanceLine(Lines, i)
           r2 == IF cl = None THEN r1
                 ELSE CardInterest(r1,
                          InterestAmount(Lines, Val(cl) + 1,
                              Min(Val(cl) + InterestLookahead - 1, Len(Lines))),
                          IntCash)
       IN /\ rows' = r2.rows
          /\ running_balance' = Some(r2.rb)
    /\ current_transaction' =
           IF CardPending(current_transaction) THEN None ELSE current_transaction
    /\ i' = Len(Lines) + 1
    /\ UNCHANGED <<exchange_rate_cache, rate_call, main, parser, doc, period_end_date, pc, page_idx, table_started,
                   header_found, current_year, last_month, formatted_date,
                   opening_balance, processed_dates, transactions_started,
                   date_header_found>>

(* Any other line: description text of the transaction under way, if any. *)
MastercardDescription ==
    /\ MastercardInTable
    /\ ~IsCardDate(Lines[i])
    /\ ~(IsCardAmount(Lines[i]) /\ current_transaction # None)
    /\ ~IsTableEnd(Lines[i])
    /\ current_transaction' =
           IF current_transaction # None /\ ~IsCardAmount(Lines[i])
           THEN Some([Val(current_transaction) EXCEPT !.parts = Append(@, Lines[i])])
           ELSE current_transaction
    /\ i' = i + 1
    /\ UNCHANGED <<exchange_rate_cache, rate_call, main, parser, doc, period_end_date, pc, page_idx, table_started,
                   header_found, current_year, last_month, formatted_date, rows,
                   opening_balance, running_balance, processed_dates,
                   transactions_started, date_header_found>>

(* The end of a page: the pending transaction is finalised without a move of
   the date cursor, and the next page is scanned. *)
MastercardEndOfPage ==
    /\ parser = "mastercard" /\ pc = "scan" /\ i > Len(Lines)
    /\ LET r == CardFinalise(rows, Val(running_balance), current_transaction,
                             current_year, last_month)
       IN /\ rows' = r.rows
          /\ running_balance' = Some(r.rb)
    /\ current_transaction' =
           IF CardPending(current_transaction) THEN None ELSE current_transaction
    /\ IF page_idx < Len(doc)
       THEN /\ page_idx' = page_idx + 1
            /\ i' = 1
            /\ pc' = pc
       ELSE /\ pc' = "done"
            /\ UNCHANGED <<page_idx, i>>
    /\ UNCHANGED <<exchange_rate_cache, rate_call, main, parser, doc, period_end_date, table_started, header_found,
                   current_year, last_month, formatted_date, opening_balance,
                   processed_dates, transactions_started, date_header_found>>

(***************************************************************************)
(* NAB offset parser: nab/nab_offset2tsv.py                                *)
(***************************************************************************)

(* The guards of the two collection loops. *)
OuterGuard == 1000

InnerGuard == 500

(* num_dots < 100: the column threshold of a dotted amount line *)
DotsThreshold == 100

(* 'opening balance' in line_lower *)
HoldsOpeningBalance(l) == l.k = "opening" \/ (l.k = "text" /\ l.s = "Opening Balance")

(* The opening balance of the first page: the first "Opening balance" line
   followed by an amount with DR or CR. *)
NabOpeningBalance(d) ==
    LET ls == d[1]
        ok == {n \in 1..Len(ls) : /\ HoldsOpeningBalance(ls[n])
                                  /\ n + 1 <= Len(ls)
                                  /\ ls[n + 1].k = "bal"}
        n == CHOOSE n \in ok : \A q \in ok : n <= q
    IN IF ok = {} THEN None
       ELSE Some(IF ls[n + 1].s = "DR" THEN -ls[n + 1].v ELSE ls[n + 1].v)

(* 'date' in line_lower and 'particulars' in line_lower *)
IsNabHeaderLine(l) == l.k = "nabhdr"

(* "Date" alone, then particulars, debits or credits, and balance in the
   next four lines. *)
NabMultiHeader(ls, n) ==
    /\ IsDateLabel(ls[n])
    /\ n + 4 <= Len(ls)
    /\ \E q \in 1..4 : HoldsWord(ls[n + q], "particulars")
    /\ \E q \in 1..4 : HoldsWord(ls[n + q], "debits") \/ HoldsWord(ls[n + q], "credits")
    /\ \E q \in 1..4 : HoldsWord(ls[n + q], "balance")

(* '****' in line and line.count('*') > 10 *)
IsStars(l) == l.k = "stars"

(* 'carried forward' in line_lower, 'brought forward' in line_lower *)
IsCarried(l) == l.k = "carried"

IsBrought(l) == l.k = "brought"

(* The lines the scan loop passes over inside the table. *)
IsNabScanSkip(l) == IsStars(l) \/ l.k \in {"info", "detail"} \/ IsCarried(l) \/ IsBrought(l)

(* The footer and information phrases the collection loop passes over. *)
IsNabCollectSkip(l) == l.k = "info"

(* date_pattern or date_with_year_pattern matches the line *)
IsNabDate(l) == l.k \in {"date", "dateyear"}

(* line.strip().lower() in ('cr', 'dr') *)
IsCrDr(l) == l.k = "crdr"

(* a number with two decimals somewhere in the line *)
HasDecimalNumber(l) == l.k \in {"num", "neg", "dollar", "bal", "minus", "dots"}

(* The date branch of the scan loop: the formatted date and current_year after
   it; a year on the token is used directly. *)
NabDateOf(l, cy, lm) ==
    IF l.k = "dateyear"
    THEN [fd |-> IF MonthGet(l.mon) # None
                 THEN Some(Date(l.d, Val(MonthGet(l.mon)), l.y)) ELSE None,
          cy |-> l.y]
    ELSE IF l.k = "date"
    THEN [fd |-> ParseDateDdMmm(l.d, l.mon, cy, lm), cy |-> cy]
    ELSE [fd |-> None, cy |-> cy]

(* A date line of another day than the one being collected. *)
IsOtherDay(l, fd) ==
    /\ IsNabDate(l)
    /\ l.d # Val(fd).d \/ MonthGet(l.mon) # Some(Val(fd).m)

(* The index after "Brought forward" at n and the balance that follows it, as
   the header skip of a new page computes it. *)
AfterBroughtOnEntry(ls, n) ==
    LET j == n + 1 IN
    IF j > Len(ls) THEN j
    ELSE IF IsCrDr(ls[j])
    THEN IF j + 1 <= Len(ls) /\ HasDecimalNumber(ls[j + 1]) THEN j + 2 ELSE j
    ELSE IF HasDecimalNumber(ls[j]) THEN j + 1
    ELSE j

(* The same, were the balance figure after the marker left in place. *)
AfterBroughtMarkerOnly(ls, n) == n + 1

(* The same inside the collection loop: DR or CR is passed over on its own. *)
AfterBroughtInLoop(ls, n) ==
    LET j == n + 1 IN
    IF j > Len(ls) THEN j
    ELSE IF IsCrDr(ls[j])
    THEN IF j + 1 <= Len(ls) /\ HasDecimalNumber(ls[j + 1]) THEN j + 2 ELSE j + 1
    ELSE IF HasDecimalNumber(ls[j]) THEN j + 1
    ELSE j

(* The header skip on a page the collection moves on to: where it resumes and
   whether a page boundary was seen. *)
NabPageEntry(ls) ==
    LET hit(k) == \/ IsBrought(ls[k])
                  \/ IsNabHeaderLine(ls[k])
                  \/ /\ IsDateLabel(ls[k]) /\ k + 4 <= Len(ls)
                     /\ \E q \in 1..4 : HoldsWord(ls[k + q], "particulars")
        hits == {k \in 1..Len(ls) : hit(k)}
        k == CHOOSE k \in hits : \A q \in hits : k <= q
    IN IF hits = {} THEN [j |-> 1, pbs |-> FALSE]
       ELSE IF IsBrought(ls[k]) THEN [j |-> AfterBroughtOnEntry(ls, k), pbs |-> TRUE]
       ELSE IF IsNabHeaderLine(ls[k]) THEN [j |-> k + 1, pbs |-> FALSE]
       ELSE [j |-> k + 5, pbs |-> FALSE]

(* parse_balance_with_dr_cr on "<balance line> <CR or DR>", signed; None when
   the balance line is no plain number. *)
NabDayEndBalance(bl, crdr) ==
    IF bl.k \in {"num", "dollar", "neg"}
    THEN Some(IF crdr.s = "DR" THEN -Abs(bl.v) ELSE Abs(bl.v))
    ELSE None

(* The passed-over lines of the collection loop are taken a run at a time:
   the index after the run of such lines that begins at j, of at most room
   lines, one iteration of the loop for each. *)
SkippedRunEnd(ls, j, room) ==
    CHOOSE k \in (j + 1)..Min(j + room, Len(ls) + 1) :
        /\ \A m \in j..(k - 1) : IsStars(ls[m]) \/ IsNabCollectSkip(ls[m])
        /\ IF k = j + room \/ k > Len(ls) THEN TRUE
           ELSE ~(IsStars(ls[k]) \/ IsNabCollectSkip(ls[k]))

(* The collection loops.  c holds the collected lines cl, the day-end balance
   deb, the page cpi and the index j, the boundary flag pbs, the iteration
   counts outer and inner, and how the loops ended. *)
RECURSIVE NabCollect(_, _, _, _)
NabCollect(d, p, fd, c) ==
    LET ls == d[c.cpi]
        l == ls[c.j]
        stop == [c EXCEPT !.fin = TRUE]
        (* after the inner loop without a day-end balance *)
        leave(cc) ==
            IF cc.j > Len(ls) \/ cc.pbs
            THEN IF cc.cpi + 1 > Len(d)
                 THEN [cc EXCEPT !.cpi = @ + 1, !.pbs = FALSE, !.fin = TRUE]
                 ELSE IF cc.outer + 1 > OuterGuard
                 THEN [cc EXCEPT !.cpi = @ + 1, !.pbs = FALSE, !.fin = TRUE]
                 ELSE LET e == NabPageEntry(d[cc.cpi + 1]) IN
                      NabCollect(d, p, fd,
                          [cc EXCEPT !.cpi = @ + 1, !.j = e.j, !.pbs = e.pbs,
                                     !.outer = @ + 1, !.inner = 0])
            ELSE [cc EXCEPT !.fin = TRUE]
    IN
    IF c.j > Len(ls) THEN leave(c)
    ELSE IF c.inner + 1 > InnerGuard THEN leave(c)
    ELSE IF IsOtherDay(l, fd)
    THEN leave([c EXCEPT !.cpi = Len(d) + 1, !.inner = @ + 1])
    ELSE IF IsStars(l) \/ IsNabCollectSkip(l)
    THEN LET k == SkippedRunEnd(ls, c.j, InnerGuard - c.inner)
         IN NabCollect(d, p, fd, [c EXCEPT !.j = k, !.inner = @ + (k - c.j)])
    ELSE IF IsCarried(l)
    THEN leave([c EXCEPT !.pbs = TRUE, !.inner = @ + 1])
    ELSE IF IsBrought(l)
    THEN NabCollect(d, p, fd,
             [c EXCEPT !.pbs = TRUE, !.j = AfterBroughtInLoop(ls, c.j), !.inner = @ + 1])
    ELSE IF IsCrDr(l) /\ c.j + 1 <= Len(ls)
                      /\ (IsCarried(ls[c.j + 1]) \/ IsBrought(ls[c.j + 1]))
    THEN NabCollect(d, p, fd, [c EXCEPT !.pbs = TRUE, !.j = @ + 2, !.inner = @ + 1])
    ELSE IF IsCrDr(l) /\ c.j + 1 <= Len(ls) /\ HasDecimalNumber(ls[c.j + 1])
    THEN IF NabDayEndBalance(ls[c.j + 1], l) = None
         THEN [c EXCEPT !.crash = TRUE, !.fin = TRUE]
         ELSE [c EXCEPT !.deb = NabDayEndBalance(ls[c.j + 1], l),
                        !.cl = @ \o <<l, ls[c.j + 1]>>,
                        !.j = @ + 2, !.cpi = Len(d) + 1, !.fin = TRUE]
    ELSE NabCollect(d, p, fd,
             [c EXCEPT !.cl = Append(@, l), !.j = @ + 1, !.inner = @ + 1])

(* The collection for the date token at line n of page p. *)
NabCollected(d, p, n, fd) ==
    NabCollect(d, p, fd,
        [cl |-> <<>>, deb |-> None, cpi |-> p, j |-> n + 1, pbs |-> FALSE,
         outer |-> 1, inner |-> 0, fin |-> FALSE, crash |-> FALSE])

(* Description texts by the keyword tests they answer. *)
ClearCreditTexts == {"Deposit"}

LikelyDebitTexts == {"Purchase", "Online Shop"}

PaymentTexts == {}

TransactionCodeTexts == {"V6606 Shop"}

TransactionKeywordTexts == {"Online Shop"}

ContinuationTexts == {"Ref: 1"}

InDesc(desc, texts) == \E n \in 1..Len(desc) : desc[n].k = "text" /\ desc[n].s \in texts

(* is_clear_credit and is_likely_debit over the description so far *)
IsClearCredit(desc) == InDesc(desc, ClearCreditTexts)

IsLikelyDebit(desc) == InDesc(desc, LikelyDebitTexts)

(* the amount with dots at the end of a line *)
IsDotsAmount(l) == l.k = "dots"

(* the hint of a dotted amount: a debit left of the threshold, unless the
   description is clearly a credit *)
DotsHint(l, desc) == [amt |-> l.v, deb |-> l.d < DotsThreshold /\ ~IsClearCredit(desc)]

NabTx(desc, a) == [desc |-> desc, amt |-> a.amt, hint |-> a.deb]

(* What follows an amount: it completes the incomplete transaction, or the
   transaction under way, or it waits for a description. *)
NabSave(st, a) ==
    IF st.desc = <<>> /\ st.inc # None
    THEN [st EXCEPT !.txs[Val(st.inc)] = NabTx(@.desc, a), !.inc = None, !.amt = None]
    ELSE IF st.desc # <<>>
    THEN [st EXCEPT !.txs = Append(@, NabTx(st.desc, a)), !.desc = <<>>, !.amt = None]
    ELSE [st EXCEPT !.amt = Some(a)]

(* Pattern 3: a line with letters. *)
NabDescription(cl, idx, st) ==
    LET l == cl[idx]
        code == l.k = "text" /\ l.s \in TransactionCodeTexts
        kw == l.k = "text" /\ l.s \in TransactionKeywordTexts
        cont == l.k = "text" /\ l.s \in ContinuationTexts
        prev == IF st.amt # None THEN st.amt
                ELSE IF idx > 1 /\ IsDotsAmount(cl[idx - 1])
                THEN Some(DotsHint(cl[idx - 1], st.desc))
                ELSE None
    IN
    IF st.inc # None /\ cont /\ st.desc = <<>>
    THEN [st EXCEPT !.txs[Val(st.inc)] =
                        [desc |-> Append(@.desc, l), amt |-> 0, hint |-> TRUE]]
    ELSE IF st.desc # <<>> /\ cont /\ ~code
    THEN [st EXCEPT !.desc = Append(@, l)]
    ELSE IF st.amt # None /\ st.desc # <<>>
    THEN [st EXCEPT !.desc = <<l>>, !.amt = None]
    ELSE IF code /\ st.desc # <<>>
    THEN IF prev # None
         THEN [st EXCEPT !.txs = Append(@, NabTx(st.desc, Val(prev))), !.inc = None,
                         !.desc = <<l>>, !.amt = None]
         ELSE [st EXCEPT !.txs = Append(@, [desc |-> st.desc, amt |-> 0, hint |-> TRUE]),
                         !.inc = Some(Len(st.txs) + 1),
                         !.desc = <<l>>, !.amt = None]
    ELSE IF kw /\ st.desc # <<>> /\ st.amt # None
    THEN [st EXCEPT !.txs = Append(@, NabTx(st.desc, Val(st.amt))),
                    !.desc = <<l>>, !.amt = None]
    ELSE [st EXCEPT !.desc = Append(@, l)]

(* The transactions of a day from its collected lines. *)
RECURSIVE NabParseLines(_, _, _)
NabParseLines(cl, idx, st) ==
    IF idx > Len(cl) THEN st.txs
    ELSE
      LET l == cl[idx] IN
      IF IsCarried(l) \/ IsBrought(l)
      THEN NabParseLines(cl,
               IF idx + 1 <= Len(cl) /\ cl[idx + 1].k \in {"num", "minus", "date", "dateyear"}
               THEN idx + 2 ELSE idx + 1, st)
      ELSE IF IsCrDr(l) THEN NabParseLines(cl, idx + 2, st)
      ELSE IF IsDotsAmount(l)
      THEN LET desc == IF l.s # "" THEN Append(st.desc, Text(l.s)) ELSE st.desc
           IN NabParseLines(cl, idx + 1,
                  NabSave([st EXCEPT !.desc = desc], DotsHint(l, desc)))
      ELSE IF l.k = "dotsonly" THEN NabParseLines(cl, idx + 1, st)
      ELSE IF HasLetters(l) THEN NabParseLines(cl, idx + 1, NabDescription(cl, idx, st))
      ELSE IF l.k \in {"num", "dollar"}
      THEN NabParseLines(cl, idx + 1,
               NabSave(st, IF idx > 1 /\ cl[idx - 1].k = "dotsonly"
                           THEN [amt |-> l.v, deb |-> FALSE]
                           ELSE [amt |-> l.v, deb |-> IsLikelyDebit(st.desc)]))
      ELSE NabParseLines(cl, idx + 1, st)

NabParseDay(cl) ==
    NabParseLines(cl, 1, [txs |-> <<>>, desc |-> <<>>, amt |-> None, inc |-> None])

(* First pass of the reconciliation, backwards from the day-end balance: the
   balance before each transaction as a debit and as a credit. *)
RECURSIVE BalancesBefore(_, _, _)
BalancesBefore(txs, n, temp) ==
    IF n = 0 THEN <<>>
    ELSE LET bbd == temp + txs[n].amt
             bbc == temp - txs[n].amt
         IN Append(BalancesBefore(txs, n - 1, IF txs[n].hint THEN bbd ELSE bbc),
                   [debit |-> bbd, credit |-> bbc])

(* Second pass, were the sign taken from the hint alone. *)
RECURSIVE ReconciledByHint(_, _, _, _)
ReconciledByHint(txs, bb, n, cur) ==
    IF n > Len(txs) THEN <<>>
    ELSE LET amount == IF txs[n].hint THEN -txs[n].amt ELSE txs[n].amt
         IN <<[desc |-> txs[n].desc, amount |-> amount, balance |-> cur + amount]>>
                \o ReconciledByHint(txs, bb, n + 1, cur + amount)

(* Second pass, forwards from the running balance: the sign whose balance
   before is nearer to the current balance, the hint on a tie. *)
RECURSIVE Reconciled(_, _, _, _)
Reconciled(txs, bb, n, cur) ==
    IF n > Len(txs) THEN <<>>
    ELSE LET debit_diff == Abs(bb[n].debit - cur)
             credit_diff == Abs(bb[n].credit - cur)
             isDebit == debit_diff < credit_diff
                          \/ (debit_diff = credit_diff /\ txs[n].hint)
             amount == IF isDebit THEN -txs[n].amt ELSE txs[n].amt
         IN <<[desc |-> txs[n].desc, amount |-> amount, balance |-> cur + amount]>>
                \o Reconciled(txs, bb, n + 1, cur + amount)

NabReconcile(txs, deb, rb) ==
    Reconciled(txs, BalancesBefore(txs, Len(txs), deb), 1,
               IF rb # None THEN Val(rb) ELSE 0)

(* Descriptions that yield no row. *)
NabSkipDesc(desc) ==
    \/ desc = <<>>
    \/ IsBalanceMarker(desc)
    \/ \E n \in 1..Len(desc) : desc[n].k \in {"opening", "info"}
    \/ \E n \in 1..Len(desc) : IsCarried(desc[n]) \/ IsBrought(desc[n])

RECURSIVE NabRows(_, _, _)
NabRows(rs, fd, pts) ==
    IF pts = <<>> THEN rs
    ELSE NabRows(IF NabSkipDesc(Head(pts).desc) THEN rs
                 ELSE Append(rs, [date |-> fd, transaction |-> Head(pts).desc,
                                  amount |-> Some(Head(pts).amount),
                                  balance |-> Some(Head(pts).balance)]),
                 fd, Tail(pts))

(* Without a day-end balance: signs from the keywords, balances from the
   running balance.  r holds the rows and the running balance. *)
RECURSIVE NabRunning(_, _, _)
NabRunning(r, fd, txs) ==
    IF txs = <<>> THEN r
    ELSE LET t == Head(txs)
             amount == IF IsLikelyDebit(t.desc)
                            /\ ~(IsClearCredit(t.desc) /\ ~InDesc(t.desc, PaymentTexts))
                       THEN -t.amt ELSE t.amt
             nb == IF r.rb # None THEN Val(r.rb) + amount ELSE amount
         IN IF NabSkipDesc(t.desc) THEN NabRunning(r, fd, Tail(txs))
            ELSE NabRunning([rows |-> Append(r.rows,
                                 [date |-> fd, transaction |-> t.desc,
                                  amount |-> Some(amount), balance |-> Some(nb)]),
                             rb |-> Some(nb)], fd, Tail(txs))

(* The rows and the running balance after a day. *)
NabDay(rs, rb, fd, c) ==
    LET txs == NabParseDay(c.cl)
        r1 == IF txs # <<>> /\ c.deb # None
              THEN [rows |-> NabRows(rs, fd, NabReconcile(txs, Val(c.deb), rb)),
                    rb |-> c.deb]
              ELSE [rows |-> rs, rb |-> rb]
    IN IF c.cpi > page_idx THEN r1
       ELSE NabRunning(r1, fd, txs)

NabAtLine == parser = "nab" /\ pc = "scan" /\ i <= Len(Lines)

NabHeaderAt == IsNabHeaderLine(Lines[i]) \/ NabMultiHeader(Lines, i)

(* if not header_found: the header line, or the multi-line header *)
NabHeader ==
    /\ NabAtLine
    /\ ~header_found
    /\ NabHeaderAt
    /\ header_found' = TRUE
    /\ table_started' = TRUE
    /\ i' = IF IsNabHeaderLine(Lines[i]) THEN i + 1 ELSE i + 5
    /\ UNCHANGED <<exchange_rate_cache, rate_call, main, parser, doc, period_end_date, pc, page_idx, current_year,
                   last_month, formatted_date, rows, opening_balance,
                   running_balance, processed_dates, current_transaction,
                   transactions_started, date_header_found>>

NabInTable == NabAtLine /\ table_started /\ ~IsNabScanSkip(Lines[i])

(* A line that starts no day: before the table, passed over, without a date,
   or with a date that was processed already. *)
NabScanLine ==
    /\ NabAtLine
    /\ ~(~header_found /\ NabHeaderAt)
    /\ IF NabInTable
       THEN LET r == NabDateOf(Lines[i], current_year, last_month) IN
            /\ IF r.fd = None THEN TRUE ELSE Val(r.fd) \in processed_dates
            /\ current_year' = r.cy
            /\ formatted_date' = r.fd
       ELSE UNCHANGED <<current_year, formatted_date>>
    /\ i' = i + 1
    /\ UNCHANGED <<exchange_rate_cache, rate_call, main, parser, doc, period_end_date, pc, page_idx, table_started,
                   header_found, last_month, rows, opening_balance,
                   running_balance, processed_dates, current_transaction,
                   transactions_started, date_header_found>>

(* The years of the model end here: a scan that comes to a date of a later
   year stands for a scan that goes on. *)
MaxYear == 2024

(* A new date in the table: the lines of the day are collected, across pages
   if need be, parsed into transactions, reconciled and emitted, and the scan
   resumes at the index the collection reached. *)
NabDateBlock ==
    /\ NabInTable
    /\ LET r == NabDateOf(Lines[i], current_year, last_month)
           c == NabCollected(doc, page_idx, i, r.fd)
           day == NabDay(rows, running_balance, r.fd, c)
       IN /\ IF r.fd = None THEN FALSE ELSE Val(r.fd) \notin processed_dates
          /\ Val(r.fd).y <= MaxYear
          /\ processed_dates' = processed_dates \cup {Val(r.fd)}
          /\ formatted_date' = r.fd
          /\ current_year' = Val(r.fd).y
          /\ last_month' = Some(Val(r.fd).m)
          /\ IF c.crash
             THEN /\ pc' = "crashed"
                  /\ UNCHANGED <<rows, running_balance, i>>
             ELSE /\ pc' = pc
                  /\ rows' = day.rows
                  /\ running_balance' = day.rb
                  /\ i' = c.j
    /\ UNCHANGED <<exchange_rate_cache, rate_call, main, parser, doc, period_end_date, page_idx, table_started,
                   header_found, opening_balance, current_transaction,
                   transactions_started, date_header_found>>

(* for page_idx in range(len(doc)): the header state is per page *)
NabNextPage ==
    /\ parser = "nab" /\ pc = "scan" /\ i > Len(Lines)
    /\ IF page_idx < Len(doc)
       THEN /\ page_idx' = page_idx + 1
            /\ i' = 1
            /\ table_started' = FALSE
            /\ header_found' = FALSE
            /\ pc' = pc
       ELSE /\ pc' = "done"
            /\ UNCHANGED <<page_idx, i, table_started, header_found>>
    /\ UNCHANGED <<exchange_rate_cache, rate_call, main, parser, doc, period_end_date, current_year, last_month,
                   formatted_date, rows, opening_balance, running_balance,
                   processed_dates, current_transaction, transactions_started,
                   date_header_found>>

(***************************************************************************)
(* Documents.  A body is a run of blocks, each a date token and the lines  *)
(* under it; the pages put the statement line and the table header of the  *)
(* parser in front of it.                                                  *)
(***************************************************************************)

MaxDateBlocks == 3

MaxAmountBlocks == 2

StartYears == {2020}

RECURSIVE BodiesUpTo(_, _)
BodiesUpTo(blocks, n) ==
    IF n = 0 THEN {<<>>}
    ELSE {<<>>} \cup {b \o r : b \in blocks, r \in BodiesUpTo(blocks, n - 1)}

(* Runs of at most n blocks, kept apart so that a page break can fall
   between two of them. *)
BlockRuns(blocks, n) == UNION {[1..m -> blocks] : m \in 0..n}

RECURSIVE Flatten(_)
Flatten(bs) == IF bs = <<>> THEN <<>> ELSE Head(bs) \o Flatten(Tail(bs))

(* Date tokens without and with a year, with a month or with "Foo". *)
YearlessTokens == {DateTok(31, "dec"), DateTok(2, "jan"), DateTok(2, "foo")}

YearTokens ==
    {DateYearTok(2, "dec", 2020), DateYearTok(2, "jan", 2021),
     DateYearTok(2, "jan", 2020), DateYearTok(2, "foo", 2021)}

(* Bodies that vary the date tokens: every block is a token and one debit. *)
DateBodies(tokens) == BodiesUpTo({<<t, Neg(500)>> : t \in tokens}, MaxDateBlocks)

(* Bodies that vary the lines of the last block: description, amount, balance;
   the blocks before it are plain. *)
BlockContents ==
    {d \o a \o b :
        d \in {<<>>, <<Text("AFTERPAY")>>},
        a \in {<<>>, <<Neg(500)>>, <<Num(500)>>},
        b \in {<<>>, <<Num(9500)>>, <<Dollar(9500)>>, <<Bal(9500, "CR")>>,
               <<Bal(10000, "CR")>>}}

PlainContents ==
    {<<Text("SHOP"), Neg(500), Bal(10000, "CR")>>,
     <<Text("SHOP"), Num(500), Dollar(10000)>>,
     <<Text("SHOP"), Num(500)>>}

AmountBodies ==
    {Flatten(pre) \o <<DateTok(2, "dec")>> \o c :
        pre \in BlockRuns({<<DateTok(2, "dec")>> \o pc0 : pc0 \in PlainContents},
                          MaxAmountBlocks - 1),
        c \in BlockContents}

CbaBodies == DateBodies(YearlessTokens \cup YearTokens) \cup AmountBodies

(* A block whose date token ends a page and whose other lines stand on the
   next page, under a repeated header or under none. *)
SplitBlocks ==
    {<<a, h \o b \o r>> :
        a \in {<<>>, <<Text("SHOP")>>},
        h \in {<<>>, <<Hdr, Label("debit"), Label("credit"), Label("balance")>>},
        b \in {<<Neg(500), Bal(10000, "CR")>>, <<Text("MORE"), Neg(500)>>},
        r \in {<<>>, <<DateTok(31, "dec"), Neg(700)>>}}

(* The forms of the table header: none, the header on one line, the header
   line with three label lines, and "Date" with four or three label lines. *)
HeaderForms ==
    {<<>>,
     <<Hdr>>,
     <<Hdr, Label("debit"), Label("credit"), Label("balance")>>,
     <<DateLbl, Label("transaction"), Label("debit"), Label("credit"), Label("balance")>>,
     <<DateLbl, Label("transaction"), Label("debit"), Label("balance")>>}

HeaderBody ==
    <<DateTok(2, "dec"), Text("SHOP"), Neg(500), Bal(10000, "CR"),
      DateTok(31, "dec"), Neg(700), Bal(9300, "CR")>>

(* Blocks whose amount line is written with a leading minus, with a trailing
   minus or in parentheses. *)
SignedForms == {Neg(500), Minus(500), Paren(500)}

SignedBlocks ==
    {<<DateTok(2, "dec"), Text("SHOP"), a, Bal(9500, "CR")>> : a \in SignedForms}

(* Blocks with two description lines, the second with or without the
   letters "cr" in it. *)
DescriptionBlocks ==
    {<<DateTok(2, "dec"), Text("SHOP"), Text(t), Neg(500), Bal(9500, "CR")>> :
        t \in {"MORE", "Direct Credit"}}

(* Blocks with a reference number of more than ten digits, before or after
   the amount, with or without a description. *)
ReferenceBlocks ==
    {<<DateTok(2, "dec"), Text("SHOP"), LongNum, Neg(500), Bal(9500, "CR")>>,
     <<DateTok(2, "dec"), Text("SHOP"), Neg(500), LongNum, Bal(9500, "CR")>>,
     <<DateTok(2, "dec"), Neg(500), LongNum, Bal(9500, "CR")>>}

(* Blocks whose balance line stands before the amount line. *)
BalanceFirstBlocks ==
    {<<Text("SHOP"), Bal(9500, "CR"), Neg(500)>>,
     <<Bal(9500, "DR"), Neg(500)>>,
     <<Text("SHOP"), Bal(9500, "DR"), Num(500)>>}

(* Blocks of one or two description lines, a debit or a credit, and a balance
   with DR or CR. *)
RoundTripBlocks ==
    {<<DateTok(2, "dec")>> \o d \o <<a, Bal(9500, sfx)>> :
        d \in {<<Text("SHOP")>>, <<Text("SHOP"), Text("MORE")>>, <<Text("Direct Credit")>>},
        a \in {Neg(500), Num(500)},
        sfx \in {"CR", "DR"}}

(* Blocks with a line of words after the balance line, with or without the
   letters "cr" in it. *)
TrailingTextBlocks ==
    {<<DateTok(2, "dec"), Text("SHOP"), Neg(500), Bal(9500, "CR"), Text(t)>> :
        t \in {"MORE", "Direct Credit"}}

(* An "Opening Balance" or "Closing Balance" row, its words on one line or
   on two, in either case of letters or behind other words, with or without
   an amount, and a plain transaction after it. *)
MarkerBodies ==
    {<<DateTok(2, "dec")>> \o m \o a \o <<Bal(10000, "CR"),
       DateTok(31, "dec"), Text("SHOP"), Num(500), Bal(9500, "CR")>> :
        m \in {<<Text("Opening Balance")>>, <<Text("CLOSING BALANCE")>>,
               <<Text("Opening"), Text("Balance")>>,
               <<Text("SHOP"), Text("Closing Balance")>>},
        a \in {<<>>, <<Num(500)>>}}

AccountDocs ==
    {<< <<Stmt, Hdr, Label("debit"), Label("credit"), Label("balance")>> \o b >> :
        b \in CbaBodies}
      \cup {<< <<Stmt>> \o h \o HeaderBody >> : h \in HeaderForms}
      \cup {<< <<Stmt, Hdr, Label("debit"), Label("credit"), Label("balance"),
                 DateTok(2, "dec")>> \o c >> : c \in BalanceFirstBlocks}
      \cup {<< <<Stmt, Hdr, Label("debit"), Label("credit"), Label("balance")>> \o b >> :
                b \in SignedBlocks \cup DescriptionBlocks \cup ReferenceBlocks
                        \cup RoundTripBlocks \cup MarkerBodies \cup TrailingTextBlocks}
      \cup {<< <<Stmt, Hdr, Label("debit"), Label("credit"), Label("balance"),
                 DateTok(2, "dec")>> \o sb[1], sb[2] >> : sb \in SplitBlocks}

(* Documents that begin with notice letters: the statement page is the last
   page or is followed by the page of the table; a notice page may hold a
   table of its own. *)
HomeLoanTable ==
    <<Hdr, Label("transaction"), Label("debit"), Label("credit"), Label("balance"),
      DateTok(2, "dec"), Text("SHOP"), Neg(500), Bal(10000, "DR")>>

HomeLoanNoticeDocs ==
    {<< <<Notice>>, <<Notice>> \o t, <<Stmt>> >> : t \in {<<>>, HomeLoanTable}}
      \cup {<< <<Notice>>, <<Notice>> \o t, <<Stmt>>, HomeLoanTable >> :
                t \in {<<>>, HomeLoanTable}}

HomeLoanDocs ==
    {<< <<Stmt>>,
        <<Hdr, Label("transaction"), Label("debit"), Label("credit"), Label("balance")>> \o b >> :
        b \in CbaBodies}
      \cup {<< <<Stmt>>, h \o HeaderBody >> : h \in HeaderForms}
      \cup {<< <<Stmt>>,
                <<Hdr, Label("transaction"), Label("debit"), Label("credit"),
                  Label("balance")>> \o b >> :
                b \in SignedBlocks \cup DescriptionBlocks \cup ReferenceBlocks
                        \cup MarkerBodies \cup TrailingTextBlocks}
      \cup HomeLoanNoticeDocs

YouthSaverDocs ==
    {<< <<Stmt, Hdr, Label("transaction"), Label("in"), Label("out"), Label("balance")>> \o b >> :
        b \in CbaBodies \cup DescriptionBlocks \cup ReferenceBlocks \cup MarkerBodies}

CardTokens == {DateTok(31, "dec"), DateTok(2, "jan"), DateTok(2, "dec"), DateTok(2, "foo")}

CardDateBlocks == {<<t, Num(500)>> : t \in CardTokens}

CardAmountBlocks ==
    {<<DateTok(2, "dec")>> \o d \o a :
        d \in {<<>>, <<Text("SHOP")>>},
        a \in {<<>>, <<Num(500)>>, <<Minus(500)>>, <<Num(500), Minus(700)>>}}

CardPlainBlocks == {<<DateTok(2, "dec"), Text("SHOP"), Num(500)>>,
                    <<DateTok(2, "dec"), Text("SHOP"), Minus(700)>>}

(* Runs that vary the date tokens, and runs that vary the lines of the last
   block after plain blocks. *)
CardRuns ==
    BlockRuns(CardDateBlocks, MaxDateBlocks)
      \cup {pre \o <<c>> : pre \in BlockRuns(CardPlainBlocks, MaxAmountBlocks - 1),
                           c \in CardAmountBlocks}

(* The lines from "Interest charged on purchases" on, when the page has them. *)
CardTails ==
    {<<>>,
     <<IntPur, Rate, Num(100)>>,
     <<IntPur, Rate, Num(100), IntCash, Rate, Num(200)>>}

CardHeader == <<TxnsKw, DateLbl, Detail, Label("amount")>>

(* Page 1 is the summary; the table starts on page 2 and may run on to page 3. *)
CardPages(bs, k, t) ==
    IF k = Len(bs)
    THEN << <<Stmt>>, CardHeader \o Flatten(bs) \o t >>
    ELSE << <<Stmt>>, CardHeader \o Flatten(SubSeq(bs, 1, k)) \o t,
            Flatten(SubSeq(bs, k + 1, Len(bs))) >>

(* A transaction whose lines run on to the next page. *)
CardSplitDocs ==
    {<< <<Stmt>>, CardHeader \o <<DateTok(2, "dec")>> \o a, b \o r >> :
        a \in {<<>>, <<Text("SHOP")>>, <<Text("SHOP"), Num(500)>>},
        b \in {<<Num(500)>>, <<Text("MORE")>>, <<Text("MORE"), Num(500)>>},
        r \in {<<>>, <<DateTok(31, "dec"), Text("SHOP"), Num(700)>>}}

MastercardDocs ==
    UNION {{CardPages(bs, k, t) : k \in 0..Len(bs), t \in CardTails} : bs \in CardRuns}
      \cup CardSplitDocs
      \cup {<< <<Stmt>>, CardHeader \o <<DateTok(2, "dec"), Text("SHOP"), a>> >> :
                a \in SignedForms}

OpeningBalances == {-25000}

PeriodEnds == {None, Some(Date(31, 12, 2020))}

MaxDayTxns == 2

(* NAB days that vary the date token: one debit and a day-end balance. *)
NabDateBlocks ==
    {<<t, Dots("Shop", 50, 500), CrDr("CR"), Num(9500)>> :
        t \in YearlessTokens \cup YearTokens}

(* The dotted amount lines of a day: the n-th amount is n times 5.00, left or
   right of the column threshold. *)
NabTxnLines == UNION {[1..m -> {50, 120}] : m \in 1..MaxDayTxns}

NabTxns(dots) == [n \in 1..Len(dots) |-> Dots("Shop", dots[n], 500 * n)]

DayEnds == {<<>>} \cup {<<CrDr("CR"), Num(v)>> : v \in {9500, 10500, 11500}}
               \cup {<<CrDr("DR"), Num(500)>>}

(* NAB days that vary the amounts: plain days first, then one day with any
   amount lines and any day-end balance. *)
NabPlainDays ==
    {<<>>} \cup {<<DateTok(n, "dec"), Dots("Shop", 50, 500), CrDr("CR"), Num(10000)>> :
                    n \in 1..(MaxAmountBlocks - 1)}

NabAmountBodies ==
    {pd \o <<DateTok(31, "dec")>> \o NabTxns(dots) \o e :
        pd \in NabPlainDays, dots \in NabTxnLines, e \in DayEnds}

(* A day carried forward to the next page. *)
NabCarriedDocs ==
    {<< <<NabStmt>> \o o \o <<NabHdr, DateTok(2, "dec")>> \o f \o cf,
        <<NabHdr>> \o bf \o <<Dots("Shop", 120, 1000)>> \o e \o
            <<DateTok(31, "dec"), Dots("Shop", 50, 500), CrDr("CR"), Num(9500)>> >> :
        o \in {<<>>, <<Opening, Bal(10000, "CR")>>},
        f \in {<<Dots("Shop", 50, 500)>>, <<Text("Purchase")>>},
        cf \in {<<>>, <<Carried, CrDr("CR"), Num(9500)>>},
        bf \in {<<>>, <<Brought, CrDr("CR"), Num(9500)>>, <<Brought, Num(9500)>>},
        e \in DayEnds}

(* A day of more lines than the collection loop takes from one page: an
   amount, lines of stars up to the guard, and a second amount behind it. *)
NabLongDayDocs ==
    {<< <<NabStmt, NabHdr, DateTok(2, "dec"), Dots("Shop", 50, 500)>>
          \o [n \in 1..InnerGuard |-> Stars]
          \o t
          \o <<DateTok(31, "dec"), Dots("Shop", 50, 500), CrDr("CR"), Num(9500)>> >> :
        t \in {<<>>, <<Dots("Shop", 120, 1000)>>}}

NabOpenings == {<<>>, <<Opening, Bal(10000, "CR")>>}

(* A day that runs on to the next page, under a day of the month before on
   the same page; the next page holds what is left of the day, with or
   without a header. *)
NabTwoMonthDocs ==
    {<< <<NabStmt, NabHdr, DateTok(30, "nov"), Dots("Shop", 50, 500), CrDr("CR"), Num(10000),
          DateTok(1, "dec")>> \o f,
        h \o t \o <<CrDr("CR"), Num(9500)>> >> :
        f \in {<<Text("Purchase")>>, <<Dots("Shop", 50, 500)>>},
        h \in {<<>>, <<NabHdr>>},
        t \in {<<>>, <<Dots("Shop", 50, 500)>>}}

(* A day whose description holds "Opening Balance" or "Closing Balance", with
   or without a day-end balance, after a plain day. *)
NabMarkerDocs ==
    {<< <<NabStmt, NabHdr, DateTok(2, "dec"), Dots("Shop", 50, 500), CrDr("CR"), Num(10000),
          DateTok(31, "dec")>> \o m \o <<Num(500)>> \o e >> :
        m \in {<<Text("Opening Balance")>>, <<Text("CLOSING BALANCE")>>,
               <<Text("Opening"), Text("Balance")>>,
               <<Text("Shop"), Text("Closing Balance")>>},
        e \in {<<>>, <<CrDr("CR"), Num(9500)>>}}

NabDocs ==
    {<< <<NabStmt>> \o o \o <<NabHdr>> \o b >> :
        o \in NabOpenings,
        b \in BodiesUpTo(NabDateBlocks, MaxDateBlocks) \cup NabAmountBodies}
      \cup NabCarriedDocs \cup NabLongDayDocs \cup NabTwoMonthDocs \cup NabMarkerDocs

(***************************************************************************)
(* AliExpress invoices: aliexpress/aliexpress2json.py, get_exchange_rate.  *)
(* exchange_rate_cache is the module-level dictionary, kept as the         *)
(* sequence of its entries [date, currency, rate] in insertion order, a    *)
(* key being the date string and the currency.  A date string is a record  *)
(* [y, m, d] or None; rates are counted in 1/10000 AUD.  rate_call is the  *)
(* last call: its arguments, what it returned and how many requests.get    *)
(* calls it made.                                                          *)
(***************************************************************************)

D(y, m, d) == [y |-> y, m |-> m, d |-> d]

IsLeap(y) == (y % 4 = 0 /\ y % 100 # 0) \/ y % 400 = 0

DaysInMonth(y, m) ==
    IF m = 2 THEN (IF IsLeap(y) THEN 29 ELSE 28)
    ELSE IF m \in {4, 6, 9, 11} THEN 30
    ELSE 31

RECURSIVE DaysBeforeMonth(_, _)
DaysBeforeMonth(y, m) ==
    IF m <= 1 THEN 0 ELSE DaysBeforeMonth(y, m - 1) + DaysInMonth(y, m - 1)

(* datetime.strptime(date_str, "%Y-%m-%d"): the day count of the date, or
   None where it raises (no date string, no such day). *)
Strptime(ds) ==
    IF ds = None THEN None
    ELSE IF ds.m \notin 1..12 \/ ds.d \notin 1..DaysInMonth(ds.y, ds.m) THEN None
    ELSE Some(365 * (ds.y - 1) + ((ds.y - 1) \div 4) - ((ds.y - 1) \div 100)
              + ((ds.y - 1) \div 400) + DaysBeforeMonth(ds.y, ds.m) + ds.d)

(* (date_obj + timedelta(days=k)).strftime("%Y-%m-%d"), a day at a time *)
NextDay(ds) ==
    IF ds.d < DaysInMonth(ds.y, ds.m) THEN D(ds.y, ds.m, ds.d + 1)
    ELSE IF ds.m < 12 THEN D(ds.y, ds.m + 1, 1)
    ELSE D(ds.y + 1, 1, 1)

PrevDay(ds) ==
    IF ds.d > 1 THEN D(ds.y, ds.m, ds.d - 1)
    ELSE IF ds.m > 1 THEN D(ds.y, ds.m - 1, DaysInMonth(ds.y, ds.m - 1))
    ELSE D(ds.y - 1, 12, 31)

RECURSIVE AddDays(_, _)
AddDays(ds, k) ==
    IF k = 0 THEN ds
    ELSE IF k > 0 THEN AddDays(NextDay(ds), k - 1)
    ELSE AddDays(PrevDay(ds), k + 1)

(* k_date_str > last_cached_date on the date strings: "None" sorts after
   every digit string. *)
DateStrGreater(a, b) ==
    IF b = None THEN FALSE
    ELSE IF a = None THEN TRUE
    ELSE \/ a.y > b.y
         \/ a.y = b.y /\ a.m > b.m
         \/ a.y = b.y /\ a.m = b.m /\ a.d > b.d

(* cache_key in exchange_rate_cache: the index of the entry, or 0 *)
CacheIndex(cache, ds, cur) ==
    LET hits == {n \in 1..Len(cache) : cache[n].date = ds /\ cache[n].currency = cur}
    IN IF hits = {} THEN 0 ELSE CHOOSE n \in hits : TRUE

(* A variant of the scan that keeps the last entry of the currency. *)
RECURSIVE NearestCachedLast(_, _, _, _, _)
NearestCachedLast(cache, n, dobj, cur, best) ==
    IF n > Len(cache) THEN best
    ELSE IF cache[n].currency # cur \/ Strptime(cache[n].date) = None
    THEN NearestCachedLast(cache, n + 1, dobj, cur, best)
    ELSE NearestCachedLast(cache, n + 1, dobj, cur, n)

(* for key, value in exchange_rate_cache.items(): the entry of the currency
   with the least abs((k_date - date_obj).days), the first of them on a tie;
   entries of other currencies and entries whose date does not parse are
   passed over.  0 when there is none. *)
RECURSIVE NearestCached(_, _, _, _, _)
NearestCached(cache, n, dobj, cur, best) ==
    IF n > Len(cache) THEN best
    ELSE IF cache[n].currency # cur \/ Strptime(cache[n].date) = None
    THEN NearestCached(cache, n + 1, dobj, cur, best)
    ELSE IF best = 0
            \/ Abs(Val(Strptime(cache[n].date)) - dobj)
                 < Abs(Val(Strptime(cache[best].date)) - dobj)
    THEN NearestCached(cache, n + 1, dobj, cur, n)
    ELSE NearestCached(cache, n + 1, dobj, cur, best)

(* The last resort: the entry of the currency with the greatest date string. *)
RECURSIVE LastCached(_, _, _, _)
LastCached(cache, n, cur, best) ==
    IF n > Len(cache) THEN best
    ELSE IF cache[n].currency # cur THEN LastCached(cache, n + 1, cur, best)
    ELSE IF best = 0 \/ DateStrGreater(cache[n].date, cache[best].date)
    THEN LastCached(cache, n + 1, cur, n)
    ELSE LastCached(cache, n + 1, cur, best)

(* EXCHANGE_RATE_SCALE_FACTOR = 1.0165 applied to a rate of the service *)
Scaled(r) == (r * 10165) \div 10000

(* return 1.0 *)
UnitRate == 10000

(* The rate the remote service answers with when it answers. *)
ApiRates == {2000}

MaxCacheEntries == 2

(* The requests of the fallback loop (1 to 14) that the service may answer:
   the first and the last. *)
AnsweredTries == {1, 14}

(* The dates of the fallback loop in its order: +1, -1, +2, -2, ... +7, -7. *)
FallbackDate(ds, t) ==
    AddDays(ds, IF t % 2 = 1 THEN (t + 1) \div 2 ELSE -(t \div 2))

Call(ds, cur, r, rd, n) ==
    [date |-> ds, currency |-> cur, result |-> r, result_date |-> rd, lookups |-> n]

(* The remote part of get_exchange_rate: the request for the exact date,
   then for the dates around it, then the last resorts.  Which request the
   service answers is its choice; the pairs <<cache after, call>>. *)
RemoteOutcomes(cache, ds, cur) ==
    LET dobj == Strptime(ds)
        room == Len(cache) < MaxCacheEntries
        exact == IF room
                 THEN {<<Append(cache, [date |-> ds, currency |-> cur, rate |-> Scaled(r)]),
                         Call(ds, cur, Scaled(r), ds, 1)>> : r \in ApiRates}
                 ELSE {}
        around == IF dobj = None \/ ~room THEN {}
                  ELSE {<<Append(cache, [date |-> FallbackDate(ds, t),
                                         currency |-> cur, rate |-> Scaled(r)]),
                          Call(ds, cur, Scaled(r), FallbackDate(ds, t), 1 + t)>> :
                            t \in AnsweredTries, r \in ApiRates}
        tried == IF dobj = None THEN 1 ELSE 15
        last == LastCached(cache, 1, cur, 0)
        rest == IF last # 0
                THEN {<<cache, Call(ds, cur, cache[last].rate, cache[last].date, tried)>>}
                ELSE {<<cache, Call(ds, cur, UnitRate, None, tried)>>}
    IN exact \cup around \cup rest

(* get_exchange_rate(date_str, currency, return_date=True) *)
GetExchangeRateOutcomes(cache, ds, cur) ==
    IF cur \in {"", "AUD"} THEN {<<cache, Call(ds, cur, UnitRate, None, 0)>>}
    ELSE IF CacheIndex(cache, ds, cur) # 0
    THEN {<<cache, Call(ds, cur, cache[CacheIndex(cache, ds, cur)].rate, ds, 0)>>}
    ELSE IF Strptime(ds) # None /\ NearestCached(cache, 1, Val(Strptime(ds)), cur, 0) # 0
    THEN LET n == NearestCached(cache, 1, Val(Strptime(ds)), cur, 0)
         IN {<<cache, Call(ds, cur, cache[n].rate, cache[n].date, 0)>>}
    ELSE RemoteOutcomes(cache, ds, cur)

NoCall == Call(None, "", 0, None, 0)

(* No invoice is converted while a statement is parsed. *)
RatesIdle ==
    /\ exchange_rate_cache = <<>>
    /\ rate_call = NoCall

(* The state after construction: the locals of parse_transactions before the
   page loop.  A parser that returns before the loop starts is done. *)
InitLocals ==
    /\ i = 1
    /\ table_started = FALSE
    /\ header_found = FALSE
    /\ last_month = None
    /\ formatted_date = None
    /\ rows = <<>>
    /\ processed_dates = {}
    /\ current_transaction = None
    /\ transactions_started = FALSE
    /\ date_header_found = FALSE

(* The year is an argument of parse_transactions. *)
InitCommon ==
    /\ InitLocals
    /\ current_year \in StartYears

(* parse_transactions called on its own: no driver state. *)
NoDriver == [phase |-> "none", out |-> None, warned |-> FALSE, closing |-> None]

InitCba ==
    /\ InitCommon
    /\ period_end_date = None
    /\ opening_balance = None
    /\ running_balance = None

InitAccount ==
    /\ parser = "account"
    /\ doc \in AccountDocs
    /\ pc = IF FirstStatementPage(doc) = None THEN "done" ELSE "scan"
    /\ page_idx = IF FirstStatementPage(doc) = None THEN 1 ELSE Val(FirstStatementPage(doc))
    /\ InitCba

InitHomeLoan ==
    /\ parser = "homeloan"
    /\ doc \in HomeLoanDocs
    /\ pc = IF Len(doc) < 2 THEN "done" ELSE "scan"
    /\ page_idx = HomeLoanStartPage(doc)
    /\ InitCba

InitYouthSaver ==
    /\ parser = "youthsaver"
    /\ doc \in YouthSaverDocs
    /\ pc = IF FirstStatementPage(doc) = None THEN "done" ELSE "scan"
    /\ page_idx = IF FirstStatementPage(doc) = None THEN 1 ELSE Val(FirstStatementPage(doc))
    /\ InitCba

InitMastercard ==
    /\ parser = "mastercard"
    /\ doc \in MastercardDocs
    /\ pc = IF Len(doc) < 2 THEN "done" ELSE "scan"
    /\ page_idx = 2
    /\ InitCommon
    /\ period_end_date \in PeriodEnds
    /\ opening_balance \in {Some(b) : b \in OpeningBalances}
    /\ running_balance = opening_balance

InitNab ==
    /\ parser = "nab"
    /\ doc \in NabDocs
    /\ pc = IF Len(doc) = 0 THEN "done" ELSE "scan"
    /\ page_idx = 1
    /\ InitCommon
    /\ period_end_date = None
    /\ opening_balance = NabOpeningBalance(doc)
    /\ running_balance = opening_balance

Init ==
    /\ RatesIdle
    /\ main = NoDriver
    /\ (InitAccount \/ InitHomeLoan \/ InitYouthSaver \/ InitMastercard \/ InitNab)

Next ==
    \/ AccountHeader \/ AccountScanLine \/ AccountDateBlock \/ AccountNextPage
    \/ HomeLoanHeader \/ HomeLoanScanLine \/ HomeLoanDateBlock \/ HomeLoanNextPage
    \/ YouthSaverHeader \/ YouthSaverScanLine \/ YouthSaverDateBlock \/ YouthSaverNextPage
    \/ MastercardStart \/ MastercardDateHeader \/ MastercardDateLine
    \/ MastercardAmountLine \/ MastercardTableEnd \/ MastercardDescription
    \/ MastercardEndOfPage
    \/ NabHeader \/ NabScanLine \/ NabDateBlock \/ NabNextPage

Spec == Init /\ [][Next]_vars

(* The NAB parser alone, as a loop that keeps running: a step that can be
   taken is taken. *)
NabInit ==
    /\ RatesIdle
    /\ main = NoDriver
    /\ InitNab
    /\ doc \notin NabLongDayDocs

NabNext == NabHeader \/ NabScanLine \/ NabDateBlock \/ NabNextPage

(* The scan stands at a new date beyond the years of the model. *)
NabCapped ==
    /\ NabInTable
    /\ LET r == NabDateOf(Lines[i], current_year, last_month)
       IN IF r.fd = None THEN FALSE
          ELSE Val(r.fd) \notin processed_dates /\ Val(r.fd).y > MaxYear

(* A step of the running loop: while parse_transactions has not returned and
   the scan is within the years of the model, the loop can step, and a step
   moves the scan or adds a processed date. *)
NabLoopStep ==
    /\ parser = "nab" /\ pc = "scan" /\ ~NabCapped
    /\ \/ /\ i' = i + 1
          /\ UNCHANGED <<exchange_rate_cache, rate_call, main, parser, doc,
                         period_end_date, pc, page_idx, table_started, header_found,
                         current_year, last_month, formatted_date, rows,
                         opening_balance, running_balance, processed_dates,
                         current_transaction, transactions_started, date_header_found>>
       \/ i' # i
       \/ page_idx' # page_idx
       \/ pc' # pc
       \/ processed_dates' # processed_dates

NabFairSpec == NabInit /\ [][NabNext]_vars /\ WF_vars(NabLoopStep)

(***************************************************************************)
(* The command-line drivers: main() of cba_account2tsv.py and of           *)
(* cba_mastercard2tsv.py.  main.phase is where main() stands: "check"      *)
(* before the first page is read, "parse" while parse_transactions runs,   *)
(* "aborted" after an exception or sys.exit(1), "written" after write_tsv. *)
(* main.out is the output file: None while it does not exist, the rows     *)
(* under the header row once it is written.                                *)
(***************************************************************************)

(* The lines of a page that hold a statement period. *)
PeriodLines(page) == {n \in 1..Len(page) : page[n].k = "period"}

(* A variant that falls back on a default year when the period is missing. *)
FirstPageYearDefault(d) ==
    LET fp == FirstStatementPage(d)
    IN IF fp = None THEN None
       ELSE LET ps == PeriodLines(d[Val(fp)])
            IN IF ps = {} THEN Some(2020)
               ELSE Some(d[Val(fp)][CHOOSE n \in ps : \A q \in ps : n <= q].y)

(* extract_first_page_info of the account parser: the year of the statement
   period on the first page that is no notice letter and names the product;
   None where it raises ValueError. *)
FirstPageYear(d) ==
    LET fp == FirstStatementPage(d)
    IN IF fp = None THEN None
       ELSE LET ps == PeriodLines(d[Val(fp)])
            IN IF ps = {} THEN None
               ELSE Some(d[Val(fp)][CHOOSE n \in ps : \A q \in ps : n <= q].y)

(* main() of the account parser up to the call of parse_transactions. *)
AccountMain ==
    /\ parser = "account"
    /\ main.phase = "check"
    /\ IF FirstPageYear(doc) = None
       THEN /\ main' = [main EXCEPT !.phase = "aborted"]
            /\ UNCHANGED <<pc, page_idx, current_year>>
       ELSE /\ main' = [main EXCEPT !.phase = "parse"]
            /\ current_year' = Val(FirstPageYear(doc))
            /\ pc' = IF FirstStatementPage(doc) = None THEN "done" ELSE "scan"
            /\ page_idx' = IF FirstStatementPage(doc) = None THEN 1
                           ELSE Val(FirstStatementPage(doc))
    /\ UNCHANGED <<exchange_rate_cache, rate_call>>
    /\ UNCHANGED <<parser, doc, period_end_date, i, table_started, header_found,
                   last_month, formatted_date, rows, opening_balance, running_balance,
                   processed_dates, current_transaction, transactions_started,
                   date_header_found>>

(* main() of the account parser after parse_transactions returned: write_tsv. *)
AccountWrite ==
    /\ parser = "account"
    /\ main.phase = "parse"
    /\ pc = "done"
    /\ main' = [main EXCEPT !.phase = "written", !.out = Some(rows)]
    /\ UNCHANGED <<exchange_rate_cache, rate_call>>
    /\ UNCHANGED <<parser, doc, period_end_date, pc, page_idx, i, table_started,
                   header_found, current_year, last_month, formatted_date, rows,
                   opening_balance, running_balance, processed_dates,
                   current_transaction, transactions_started, date_header_found>>

(* abs(final_balance - closing_balance) > 0.01, in cents.  The code compares
   binary floating point numbers: a difference of one cent falls on either
   side of 0.01 (100.01 - 100.00 is above it, 255.00 - 254.99 below). *)
ClosingWarnings(final, closing) ==
    IF Abs(final - closing) > 1 THEN {TRUE}
    ELSE IF Abs(final - closing) = 1 THEN BOOLEAN
    ELSE {FALSE}

(* main() of the Mastercard parser up to the call of parse_transactions: the
   opening and the closing balance of the first page must both be found. *)
MastercardMain ==
    /\ parser = "mastercard"
    /\ main.phase = "check"
    /\ IF opening_balance = None \/ main.closing = None
       THEN /\ main' = [main EXCEPT !.phase = "aborted"]
            /\ pc' = pc
       ELSE /\ main' = [main EXCEPT !.phase = "parse"]
            /\ pc' = IF Len(doc) < 2 THEN "done" ELSE "scan"
    /\ UNCHANGED <<exchange_rate_cache, rate_call>>
    /\ UNCHANGED <<parser, doc, period_end_date, page_idx, i, table_started,
                   header_found, current_year, last_month, formatted_date, rows,
                   opening_balance, running_balance, processed_dates,
                   current_transaction, transactions_started, date_header_found>>

(* main() of the Mastercard parser after parse_transactions returned: the
   closing balance check, then write_tsv. *)
MastercardWrite ==
    /\ parser = "mastercard"
    /\ main.phase = "parse"
    /\ pc = "done"
    /\ \E w \in ClosingWarnings(Val(running_balance), Val(main.closing)) :
          main' = [main EXCEPT !.phase = "written", !.warned = w, !.out = Some(rows)]
    /\ UNCHANGED <<exchange_rate_cache, rate_call>>
    /\ UNCHANGED <<parser, doc, period_end_date, pc, page_idx, i, table_started,
                   header_found, current_year, last_month, formatted_date, rows,
                   opening_balance, running_balance, processed_dates,
                   current_transaction, transactions_started, date_header_found>>

(* The first lines of the first page of an account statement: with and
   without the product name, with and without the statement period. *)
FirstPageForms == {<<Stmt, Period(2020)>>, <<Stmt>>, <<Period(2020)>>, <<>>}

TableLabels == <<Hdr, Label("debit"), Label("credit"), Label("balance")>>

DriverAccountDocs ==
    {<< f \o TableLabels \o b >> : f \in FirstPageForms, b \in CbaBodies}
      \cup {<< <<Notice, Stmt, Period(2020)>>, f \o TableLabels \o b >> :
                f \in FirstPageForms, b \in SignedBlocks}
      \cup {<< <<Stmt>>, <<Period(2020)>> \o TableLabels \o b >> : b \in SignedBlocks}
      \cup {<< <<Notice, Stmt, Period(2020)>> >>, <<>>}

(* The closing balance that the first page of a card statement declares. *)
DeclaredClosings == {-25000, -25498, -25499, -25500, -25501, -25502}

DriverInitAccount ==
    /\ parser = "account"
    /\ doc \in DriverAccountDocs
    /\ main = [phase |-> "check", out |-> None, warned |-> FALSE, closing |-> None]
    /\ pc = "main"
    /\ page_idx = 1
    /\ current_year = 0
    /\ InitLocals
    /\ period_end_date = None
    /\ opening_balance = None
    /\ running_balance = None

DriverInitMastercard ==
    /\ parser = "mastercard"
    /\ doc \in MastercardDocs
    /\ main \in {[phase |-> "check", out |-> None, warned |-> FALSE, closing |-> c] :
                    c \in {None} \cup {Some(b) : b \in DeclaredClosings}}
    /\ pc = "main"
    /\ page_idx = 2
    /\ InitCommon
    /\ period_end_date \in PeriodEnds
    /\ opening_balance \in {None} \cup {Some(b) : b \in OpeningBalances}
    /\ running_balance = opening_balance

DriverInit == RatesIdle /\ (DriverInitAccount \/ DriverInitMastercard)

DriverNext ==
    \/ AccountMain \/ AccountWrite
    \/ AccountHeader \/ AccountScanLine \/ AccountDateBlock \/ AccountNextPage
    \/ MastercardMain \/ MastercardWrite
    \/ MastercardStart \/ MastercardDateHeader \/ MastercardDateLine
    \/ MastercardAmountLine \/ MastercardTableEnd \/ MastercardDescription
    \/ MastercardEndOfPage

DriverSpec == DriverInit /\ [][DriverNext]_vars

(***************************************************************************)
(* Calls of get_exchange_rate on a cache loaded from the cache file.       *)
(***************************************************************************)

SeedDates == {D(2025, 8, 29), D(2025, 9, 2), D(2025, 11, 8)}

SeedCurrencies == {"USD", "CNY"}

(* The cached rates, one for each key. *)
SeedEntries ==
    {[date |-> ds, currency |-> cur,
      rate |-> (IF cur = "USD" THEN 15000 ELSE 2000) + 10 * ds.m + ds.d] :
        ds \in SeedDates, cur \in SeedCurrencies}

(* exchange_rate_cache after json.load: entries with distinct keys. *)
CacheSeeds ==
    {c \in UNION {[1..m -> SeedEntries] : m \in 0..MaxCacheEntries} :
        \A a, b \in 1..Len(c) :
            (c[a].date = c[b].date /\ c[a].currency = c[b].currency) => a = b}

(* The invoice dates asked for: a cached date, dates between the cached
   ones, a date string that is no day, and no date. *)
RequestDates ==
    {D(2025, 8, 29), D(2025, 8, 30), D(2025, 10, 4), D(2025, 13, 45), None}

RequestCurrencies == {"", "AUD", "USD", "CNY"}

RateInit ==
    /\ exchange_rate_cache \in CacheSeeds
    /\ rate_call = NoCall
    /\ main = NoDriver
    /\ parser = "aliexpress"
    /\ doc = <<>>
    /\ pc = "done"
    /\ page_idx = 1
    /\ current_year = 0
    /\ InitLocals
    /\ period_end_date = None
    /\ opening_balance = None
    /\ running_balance = None

GetExchangeRate ==
    /\ parser = "aliexpress"
    /\ \E ds \in RequestDates, cur \in RequestCurrencies :
          \E o \in GetExchangeRateOutcomes(exchange_rate_cache, ds, cur) :
              /\ exchange_rate_cache' = o[1]
              /\ rate_call' = o[2]
    /\ UNCHANGED <<main, parser, doc, period_end_date, pc, page_idx, i, table_started,
                   header_found, current_year, last_month, formatted_date, rows,
                   opening_balance, running_balance, processed_dates,
                   current_transaction, transactions_started, date_header_found>>

RateNext == GetExchangeRate

RateSpec == RateInit /\ [][RateNext]_vars

(***************************************************************************)
(* Properties of the emitted rows and of the date cursor.                  *)
(***************************************************************************)

(* The rows before row k that carry a balance, and the nearest of them. *)
KnownBefore(rs, k) == {n \in 1..(k - 1) : rs[n].balance # None}

NearestBalance(rs, k) ==
    Val(rs[CHOOSE n \in KnownBefore(rs, k) : \A q \in KnownBefore(rs, k) : q <= n].balance)

(* The lines under the date token at the cursor of a CBA parser. *)
BlockAtCursor ==
    IF parser = "youthsaver"
    THEN SubSeq(Lines, i + 1, YouthSaverCollectEnd(Lines, i + 1) - 1)
    ELSE IF parser = "homeloan"
    THEN SubSeq(Lines, i + 1, HomeLoanCollectEnd(Lines, i + 1) - 1)
    ELSE SubSeq(Lines, i + 1, AccountCollectEnd(Lines, i + 1) - 1)

(* C1: in the CBA account and home loan parsers every emitted record with an
   amount and a balance has balance = nearest earlier known balance + its
   signed amount. *)
C1_BalanceFollowsAmount ==
    parser \in {"account", "homeloan"} =>
        \A k \in 1..Len(rows) :
            (rows[k].amount # None /\ rows[k].balance # None /\ KnownBefore(rows, k) # {})
                => Val(rows[k].balance) = NearestBalance(rows, k) + Val(rows[k].amount)

RECURSIVE SumSigned(_)
SumSigned(rs) == IF rs = <<>> THEN 0 ELSE WriteTsvAmount(Head(rs)) + SumSigned(Tail(rs))

(* C2: in the Mastercard parser every emitted row's balance is the previous
   running balance (the opening balance for the first row, else the balance of
   the row before) plus the row's signed amount, credit positive and debit
   negative, and the running balance that is returned is the opening balance
   plus the sum of the signed amounts of all rows. *)
C2_CardBalanceChain ==
    parser = "mastercard" =>
        /\ \A k \in 1..Len(rows) :
               rows[k].balance =
                   (IF k = 1 THEN Val(opening_balance) ELSE rows[k - 1].balance)
                       + WriteTsvAmount(rows[k])
        /\ Val(running_balance) = Val(opening_balance) + SumSigned(rows)

(* A finished Mastercard run whose rows came by a next date line, by the
   table end with both interest rows, and by the end of a page. *)
C2_Witness ==
    /\ parser = "mastercard" /\ pc = "done"
    /\ Len(rows) = 5
    /\ rows[3].transaction = <<IntPur>>
    /\ rows[4].transaction = <<IntCash>>
    /\ Len(doc) = 3 /\ doc[3] # <<>>

(* The day that starts at the cursor of the NAB parser: whether a new date
   stands there, what is collected under it, and its transactions. *)
NabStartsDay ==
    /\ NabInTable
    /\ LET r == NabDateOf(Lines[i], current_year, last_month)
       IN IF r.fd = None THEN FALSE ELSE Val(r.fd) \notin processed_dates

NabDayAtCursor ==
    NabCollected(doc, page_idx, i, NabDateOf(Lines[i], current_year, last_month).fd)

NabTxnsAtCursor == NabParseDay(NabDayAtCursor.cl)

LastRow(rs) == rs[Len(rs)]

(* C3: in the NAB parser a day with exactly one non-zero amount a, an explicit
   CR/DR day-end balance E and a known running balance R is emitted with
   amount -a when E = R - a and with amount +a when E = R + a, whatever the
   hint; the emitted balance is E.  The day is one of a transaction: a row
   of "Opening Balance" or "Closing Balance" is no transaction and gives no
   record (C36). *)
C3_SingleAmountDay ==
    [][(/\ NabStartsDay
        /\ Len(NabTxnsAtCursor) = 1
        /\ NabTxnsAtCursor[1].amt # 0
        /\ ~IsBalanceMarker(NabTxnsAtCursor[1].desc)
        /\ NabDayAtCursor.deb # None
        /\ running_balance # None)
       => LET a == NabTxnsAtCursor[1].amt
              E == Val(NabDayAtCursor.deb)
              R == Val(running_balance)
          IN /\ E = R - a => /\ Len(rows') = Len(rows) + 1
                             /\ LastRow(rows').amount = Some(-a)
                             /\ LastRow(rows').balance = Some(E)
             /\ E = R + a => /\ Len(rows') = Len(rows) + 1
                             /\ LastRow(rows').amount = Some(a)
                             /\ LastRow(rows').balance = Some(E)]_vars

(* A finished NAB run: opening balance 100.00, one amount of 5.00 with the
   dots of the credit column, day-end balance 95.00 CR, emitted as a debit. *)
C3_Witness ==
    /\ parser = "nab" /\ pc = "done"
    /\ doc = << <<NabStmt, Opening, Bal(10000, "CR"), NabHdr, DateTok(31, "dec"),
                  Dots("Shop", 120, 500), CrDr("CR"), Num(9500)>> >>
    /\ Len(rows) = 1
    /\ rows[1].amount = Some(-500)
    /\ rows[1].balance = Some(9500)

(* The block at the cursor of a CBA parser is description lines, one amount
   without a sign and one balance without DR or CR. *)
UnsignedDebitBlock ==
    LET b == BlockAtCursor IN
    /\ Len(b) >= 3
    /\ \A n \in 1..(Len(b) - 2) : b[n].k = "text"
    /\ b[Len(b) - 1].k = "num"
    /\ b[Len(b)].k \in {"num", "dollar"}

(* C4: in the CBA account and youth saver parsers a block of description
   lines, one amount a without a sign and one balance b without DR or CR, with
   b = prior known balance - a, is emitted with amount -a and balance b. *)
C4_UnsignedDebit ==
    [][(/\ \/ AccountInTable /\ AccountDateOf(Lines[i], current_year, last_month).fd # None
           \/ YouthSaverInTable /\ AccountDateOf(Lines[i], current_year, last_month).fd # None
        /\ UnsignedDebitBlock
        /\ KnownBefore(rows, Len(rows) + 1) # {}
        /\ BlockAtCursor[Len(BlockAtCursor)].v =
               NearestBalance(rows, Len(rows) + 1) - BlockAtCursor[Len(BlockAtCursor) - 1].v)
       => /\ Len(rows') = Len(rows) + 1
          /\ LastRow(rows').amount = Some(-BlockAtCursor[Len(BlockAtCursor) - 1].v)
          /\ LastRow(rows').balance = Some(BlockAtCursor[Len(BlockAtCursor)].v)]_vars

(* C5: in the NAB parser, when a day ends with an explicit CR/DR day-end
   balance, the last record emitted for the day has that balance. *)
C5_DayEndBalance ==
    [][(/\ NabStartsDay
        /\ NabDayAtCursor.deb # None
        /\ Len(rows') > Len(rows))
       => LastRow(rows').balance = NabDayAtCursor.deb]_vars

(* The yearless date token at the cursor of a parser that takes it as the
   start of a block, its month, and the year the cursor rule gives it. *)
YearlessAtCursor ==
    /\ AccountInTable \/ HomeLoanInTable \/ YouthSaverInTable \/ NabStartsDay
    /\ Lines[i].k = "date"
    /\ MonthGet(Lines[i].mon) # None

MonthAtCursor == Val(MonthGet(Lines[i].mon))

RolledYear ==
    IF last_month # None /\ MonthAtCursor < Val(last_month)
    THEN current_year + 1
    ELSE current_year

(* C6: in the CBA account, home loan, youth saver and NAB parsers a yearless
   token whose month is lower than the month of the token consumed before it
   is dated in the year after the cursor's and the cursor keeps that year; any
   other yearless token is dated in the cursor's year, which stays; the
   token's month becomes the month the next token is compared with. *)
C6_YearRollover ==
    [][YearlessAtCursor
       => /\ formatted_date' = Some(Date(Lines[i].d, MonthAtCursor, RolledYear))
          /\ current_year' = RolledYear
          /\ last_month' = Some(MonthAtCursor)]_vars

(* A finished account run over yearless tokens only: "31 Dec" then "02 Jan",
   read from year 2020, dated 31/12/2020 and 02/01/2021. *)
C6_Witness ==
    /\ parser = "account" /\ pc = "done"
    /\ \A n \in 1..Len(doc[1]) : doc[1][n].k # "dateyear"
    /\ Len(rows) = 2
    /\ rows[1].date = Some(Date(31, 12, 2020))
    /\ rows[2].date = Some(Date(2, 1, 2021))
    /\ current_year = 2021

(* The year-bearing token with a month at the cursor of a parser that reads
   that shape. *)
YearTokenAtCursor ==
    /\ AccountInTable \/ YouthSaverInTable \/ NabInTable
    /\ Lines[i].k = "dateyear"
    /\ MonthGet(Lines[i].mon) # None

(* C7: in the CBA account, youth saver and NAB parsers a year-bearing token
   is dated in the year it names and leaves the cursor at that year, whatever
   the month of the token before it. *)
C7_YearFromToken ==
    [][YearTokenAtCursor
       => /\ formatted_date' # None
          /\ Val(formatted_date').y = Lines[i].y
          /\ current_year' = Lines[i].y]_vars

(* The date-shaped token at the cursor of the account or youth saver parser
   whose three letters are no month. *)
MalformedAtCursor ==
    /\ AccountInTable \/ YouthSaverInTable
    /\ Lines[i].k \in {"date", "dateyear"}
    /\ MonthGet(Lines[i].mon) = None

(* C8: in the CBA account and youth saver parsers a date-shaped token that
   fails to parse, with or without a year, yields no date and leaves the
   cursor's year and month as they were. *)
C8_MalformedToken ==
    [][MalformedAtCursor
       => /\ formatted_date' = None
          /\ current_year' = current_year
          /\ last_month' = last_month]_vars

(* C9: within one document the cursor's year never decreases. *)
C9_YearNeverDecreases == [][current_year' >= current_year]_vars

DateLeq(a, b) ==
    \/ a.y < b.y
    \/ a.y = b.y /\ a.m < b.m
    \/ a.y = b.y /\ a.m = b.m /\ a.d <= b.d

(* C10: in every parser the dates of adjacent rows, in the order of emission,
   never decrease. *)
C10_DatesNonDecreasing ==
    \A k \in 1..(Len(rows) - 1) : DateLeq(Val(rows[k].date), Val(rows[k + 1].date))

(* The lines of the page after the current one that continue a block: those
   after the repeated header labels, up to the first date-shaped line. *)
RECURSIVE UpToDate(_)
UpToDate(ls) ==
    IF ls = <<>> \/ StartsLikeDate(Head(ls)) THEN <<>>
    ELSE <<Head(ls)>> \o UpToDate(Tail(ls))

RECURSIVE AfterLabels(_)
AfterLabels(ls) ==
    IF ls # <<>> /\ Head(ls).k \in {"hdr", "nabhdr", "label"} THEN AfterLabels(Tail(ls))
    ELSE ls

ContinuedLines ==
    IF page_idx < Len(doc) THEN UpToDate(AfterLabels(doc[page_idx + 1])) ELSE <<>>

DotsIn(ls) == Cardinality({n \in 1..Len(ls) : ls[n].k = "dots"})

(* C11: a block started by a date token holds every line up to the next date
   token or table end, also the lines that stand on the next page.  Account:
   the record of a block that reaches the end of its page is the record of
   its lines on both pages.  Mastercard: a transaction pending at the end of
   a page stays open when the next page continues it.  NAB: a day that
   reaches the end of its page yields a record for every dotted amount of
   both pages. *)
C11_BlockSpansPages ==
    [][/\ (/\ AccountInTable
           /\ AccountDateOf(Lines[i], current_year, last_month).fd # None
           /\ AccountCollectEnd(Lines, i + 1) > Len(Lines)
           /\ ContinuedLines # <<>>)
          => rows' = AccountEmit(rows, AccountDateOf(Lines[i], current_year, last_month).fd,
                         AccountClassify(SubSeq(Lines, i + 1, Len(Lines)) \o ContinuedLines))
       /\ (/\ parser = "mastercard" /\ pc = "scan" /\ i > Len(Lines)
           /\ current_transaction # None
           /\ ContinuedLines # <<>>
           /\ ~IsTableEnd(ContinuedLines[1]))
          => /\ rows' = rows
             /\ current_transaction' = current_transaction
       /\ (/\ NabStartsDay
           /\ \A n \in (i + 1)..Len(Lines) : Lines[n].k = "dots"
           /\ DotsIn(ContinuedLines) > 0)
          => Len(rows') = Len(rows) + (Len(Lines) - i) + DotsIn(ContinuedLines)]_vars

(* The balance figure that stands after the "Carried forward" or "Brought
   forward" line n of a page, after DR or CR if it is there. *)
FigureAfter(ls, n) ==
    IF n + 1 <= Len(ls) /\ HasDecimalNumber(ls[n + 1]) THEN {ls[n + 1].v}
    ELSE IF n + 2 <= Len(ls) /\ IsCrDr(ls[n + 1]) /\ HasDecimalNumber(ls[n + 2])
    THEN {IF ls[n + 1].s = "DR" THEN -ls[n + 2].v ELSE ls[n + 2].v}
    ELSE {}

MarkersOf(ls) == {n \in 1..Len(ls) : ls[n].k \in {"carried", "brought"}}

MarkerFigures ==
    UNION {UNION {FigureAfter(doc[p], n) : n \in MarkersOf(doc[p])} : p \in 1..Len(doc)}

(* C12: in the NAB parser no emitted record has a description that holds
   "Carried forward" or "Brought forward", and no record has the balance
   figure of such a marker as its amount. *)
C12_MarkersNotEmitted ==
    parser = "nab" =>
        \A k \in 1..Len(rows) :
            /\ \A n \in 1..Len(rows[k].transaction) :
                   rows[k].transaction[n].k \notin {"carried", "brought"}
            /\ Val(rows[k].amount) \notin MarkerFigures
            /\ -Val(rows[k].amount) \notin MarkerFigures

(* A finished NAB run over a day carried forward to the next page and brought
   forward there: the amounts of both pages are emitted under its date. *)
C12_Witness ==
    /\ parser = "nab" /\ pc = "done"
    /\ \E n \in 1..Len(doc[1]) : IsCarried(doc[1][n])
    /\ Len(doc) = 2
    /\ \E n \in 1..Len(doc[2]) : doc[2][n].k = "brought"
    /\ Len(rows) >= 2
    /\ rows[1].date = Some(Date(2, 12, 2020)) /\ Abs(Val(rows[1].amount)) = 500
    /\ rows[2].date = Some(Date(2, 12, 2020)) /\ Abs(Val(rows[2].amount)) = 1000

(* The figures of the page boundary that the day at the cursor crosses: the
   figure after "Carried forward" below the cursor and the figure after
   "Brought forward" on the next page. *)
CarriedFigures ==
    UNION {FigureAfter(Lines, n) : n \in {m \in (i + 1)..Len(Lines) : IsCarried(Lines[m])}}
      \cup (IF page_idx < Len(doc)
            THEN UNION {FigureAfter(doc[page_idx + 1], n) :
                            n \in {m \in 1..Len(doc[page_idx + 1]) :
                                       IsBrought(doc[page_idx + 1][m])}}
            ELSE {})

(* The amounts of the day at the cursor that stand on its first page. *)
AmountsBeforeBoundary ==
    Cardinality({n \in (i + 1)..Len(Lines) :
                    /\ Lines[n].k = "dots"
                    /\ \A m \in (i + 1)..n : ~IsCarried(Lines[m])})

(* C13: in the NAB parser, after "Carried forward" / "Brought forward" and
   its balance figure, the running balance that the following transactions
   are reconciled against is the carried figure: the first record after the
   boundary has a balance that is the carried figure plus its amount. *)
C13_CarriedBalanceUsed ==
    [][(/\ NabStartsDay
        /\ NabDayAtCursor.cpi > page_idx
        /\ CarriedFigures # {}
        /\ Len(rows') > Len(rows) + AmountsBeforeBoundary)
       => LET r == rows'[Len(rows) + AmountsBeforeBoundary + 1]
          IN Val(r.balance) - Val(r.amount) \in CarriedFigures]_vars

(* A page line at which the header test of the CBA account and home loan
   parsers succeeds. *)
HeaderRecognisedAt(ls, n) == IsHeaderLine(ls[n]) \/ AccountMultiHeader(ls, n)

DocHasHeader ==
    \E p \in 1..Len(doc) : \E n \in 1..Len(doc[p]) : HeaderRecognisedAt(doc[p], n)

(* C14: a document in which no page holds a recognisable table header is
   rejected: the parser never returns normally from it. *)
C14_NoHeaderRejected ==
    (parser \in {"account", "homeloan"} /\ ~DocHasHeader) => pc # "done"

(* C15: in the CBA account and home loan parsers the step that recognises the
   table header resumes right after the last header line: every line it
   passes over after the recognised one is a column label. *)
C15_HeaderSkipOnlyLabels ==
    [][(/\ parser \in {"account", "homeloan"}
        /\ pc = "scan"
        /\ ~header_found
        /\ header_found')
       => \A n \in (i + 1)..Min(i' - 1, Len(Lines)) : Lines[n].k = "label"]_vars

(* C16: a block in which no debit or credit amount is recognised emits no
   record, also when a balance figure was recognised in it: every record of
   the parsers that emit a record per block carries an amount.  (A Mastercard
   record is built from an amount line only.) *)
C16_NoAmountNoRecord ==
    parser \in {"account", "homeloan", "youthsaver"} =>
        \A k \in 1..Len(rows) : rows[k].amount # None

(* C17: in the NAB parser a day with at least one amount and no day-end
   balance, ended by the next different date or by the end of the document,
   still yields records, by the keyword heuristic and the running balance. *)
C17_DayWithoutBalanceEmits ==
    [][(/\ NabStartsDay
        /\ ~NabDayAtCursor.crash
        /\ NabDayAtCursor.deb = None
        /\ \E n \in 1..Len(NabTxnsAtCursor) : ~NabSkipDesc(NabTxnsAtCursor[n].desc))
       => Len(rows') > Len(rows)]_vars

(* The collection for the day at the cursor was ended by the iteration guard
   of the inner loop: the count is used up in the middle of a page, with no
   day-end balance found. *)
InnerGuardTripped ==
    LET c == NabDayAtCursor
    IN /\ ~c.crash
       /\ c.deb = None
       /\ c.cpi <= Len(doc)
       /\ c.inner >= InnerGuard
       /\ c.j <= Len(doc[c.cpi])

(* C18: in the NAB parser a day whose collection trips the iteration guard is
   abandoned: no record is made from its lines. *)
C18_GuardAbandonsBlock ==
    [][(NabStartsDay /\ InnerGuardTripped) => rows' = rows]_vars

(* A line with the shape of a date token whose three letters are no month. *)
IsUnparseableDate(l) == StartsLikeDate(l) /\ MonthGet(l.mon) = None

(* A block or day begins at the cursor of the account, home loan or NAB
   parser. *)
BlockStartsAtCursor ==
    \/ AccountInTable /\ AccountDateOf(Lines[i], current_year, last_month).fd # None
    \/ HomeLoanInTable /\ HomeLoanDateOf(Lines[i], current_year, last_month) # None
    \/ NabStartsDay /\ ~NabDayAtCursor.crash

(* C19: in the account, home loan and NAB parsers a date-shaped line that
   does not parse as a date does not end the current block: the block that
   begins at the cursor never ends at such a line. *)
C19_UnparseableDateInBlock ==
    [][BlockStartsAtCursor
       => ~(i' \in (i + 1)..Len(Lines) /\ IsUnparseableDate(Lines[i']))]_vars

(* The Mastercard scan has passed the line "Interest charged on purchases"
   inside the transaction table. *)
TableEndPassed ==
    /\ parser = "mastercard"
    /\ transactions_started /\ date_header_found
    /\ \E p \in 1..page_idx : \E n \in 1..Len(doc[p]) :
           /\ IsTableEnd(doc[p][n])
           /\ p < page_idx \/ n < i

(* C20: in the Mastercard parser the table end is terminal: once the line
   "Interest charged on purchases" has been processed, no record is appended
   from a later line or a later page. *)
C20_TableEndTerminal ==
    [][TableEndPassed => rows' = rows]_vars

(* The lines of the block that begins at the cursor of the account parser. *)
AccountBlockAtCursor ==
    SubSeq(Lines, i + 1, AccountCollectEnd(Lines, i + 1) - 1)

(* C21: in the account parser a block line that is a number with DR or CR is
   the balance of the block, negative for DR and positive for CR, and no part
   of the description, wherever it stands in the block: a record emitted for
   a block with such a line carries it as its balance and not in its
   description. *)
C21_DrCrLineIsBalance ==
    [][(/\ AccountInTable
        /\ AccountDateOf(Lines[i], current_year, last_month).fd # None
        /\ Len(rows') > Len(rows))
       => \A n \in 1..Len(AccountBlockAtCursor) :
              LET l == AccountBlockAtCursor[n]
                  r == rows'[Len(rows')]
              IN l.k = "bal"
                 => /\ r.balance = Some(IF l.s = "DR" THEN -l.v ELSE l.v)
                    /\ \A m \in 1..Len(r.transaction) : r.transaction[m] # l]_vars

(* The lines of the block that begins at the cursor of the home loan parser. *)
HomeLoanBlockAtCursor ==
    SubSeq(Lines, i + 1, HomeLoanCollectEnd(Lines, i + 1) - 1)

(* The first line of a block that is a non-zero amount of one of the kinds,
   or 0. *)
FirstOfKinds(cl, kinds) ==
    LET S == {n \in 1..Len(cl) : cl[n].k \in kinds /\ cl[n].v > 0}
    IN IF S = {} THEN 0 ELSE CHOOSE n \in S : \A m \in S : n <= m

(* The step emits one record, with the first amount of the kinds as a debit. *)
EmitsDebit(cl, kinds) ==
    FirstOfKinds(cl, kinds) # 0
        => /\ Len(rows') = Len(rows) + 1
           /\ rows'[Len(rows')].amount = Some(-cl[FirstOfKinds(cl, kinds)].v)

AccountBlockStarts ==
    AccountInTable /\ AccountDateOf(Lines[i], current_year, last_month).fd # None

HomeLoanBlockStarts ==
    HomeLoanInTable /\ HomeLoanDateOf(Lines[i], current_year, last_month) # None

SignedKinds == {"neg", "minus", "paren"}

(* C22 as stated: in every parser an amount line with a leading minus, with
   a trailing minus or in parentheses is a debit and is emitted as a negative
   amount. *)
C22_SignedFormsAreDebits ==
    [][/\ AccountBlockStarts => EmitsDebit(AccountBlockAtCursor, SignedKinds)
       /\ HomeLoanBlockStarts => EmitsDebit(HomeLoanBlockAtCursor, SignedKinds)
       /\ (/\ MastercardInTable
           /\ current_transaction # None
           /\ Lines[i].k \in SignedKinds)
          => /\ current_transaction' # None
             /\ Val(current_transaction').amt = Some(Lines[i].v)
             /\ ~Val(current_transaction').is_cred]_vars

(* C22, amended: an amount line with a leading minus is a debit, emitted as a
   negative amount, in the account and home loan parsers, and so is an amount
   in parentheses in the account parser, unless the block is an opening or
   closing balance; in the Mastercard parser an amount with a trailing minus
   is a credit. *)
C22_SignedDebits ==
    [][/\ (AccountBlockStarts
              /\ ~IsBalanceMarker(AccountClassify(AccountBlockAtCursor).parts))
          => EmitsDebit(AccountBlockAtCursor, {"neg", "paren"})
       /\ (HomeLoanBlockStarts
              /\ ~IsBalanceMarker(HomeLoanClassify(HomeLoanBlockAtCursor).parts))
          => EmitsDebit(HomeLoanBlockAtCursor, {"neg"})
       /\ (/\ MastercardInTable
           /\ current_transaction # None
           /\ Lines[i].k = "minus")
          => /\ current_transaction' # None
             /\ Val(current_transaction').amt = Some(Lines[i].v)
             /\ Val(current_transaction').is_cred]_vars

(* A finished account run over a block whose amount stands in parentheses:
   one record, with the amount as a debit. *)
C22_Witness ==
    /\ parser = "account" /\ pc = "done"
    /\ \E n \in 1..Len(doc[1]) : doc[1][n].k = "paren"
    /\ Len(rows) = 1
    /\ rows[1].amount = Some(-500)

YouthSaverBlockStarts ==
    YouthSaverInTable /\ AccountDateOf(Lines[i], current_year, last_month).fd # None

YouthSaverBlockAtCursor ==
    SubSeq(Lines, i + 1, YouthSaverCollectEnd(Lines, i + 1) - 1)

(* Every line of words of the block is a line of the description of the
   record the step emits. *)
KeepsWords(cl) ==
    Len(rows') > Len(rows)
        => \A n \in 1..Len(cl) :
               cl[n].k = "text"
                   => \E m \in 1..Len(rows'[Len(rows')].transaction) :
                          rows'[Len(rows')].transaction[m] = cl[n]

(* C23: in the home loan, account and youth saver parsers every block line
   that holds letters and is no balance with DR or CR and no amount is part
   of the description of the emitted record, whatever its letters are. *)
C23_WordsInDescription ==
    [][/\ AccountBlockStarts => KeepsWords(AccountBlockAtCursor)
       /\ HomeLoanBlockStarts => KeepsWords(HomeLoanBlockAtCursor)
       /\ YouthSaverBlockStarts => KeepsWords(YouthSaverBlockAtCursor)]_vars

(* The step emits a record that holds every reference number of the block in
   its description and none as an amount or balance. *)
KeepsReference(cl) ==
    (\E n \in 1..Len(cl) : cl[n].k = "longnum")
        => /\ Len(rows') = Len(rows) + 1
           /\ \E m \in 1..Len(rows'[Len(rows')].transaction) :
                  rows'[Len(rows')].transaction[m].k = "longnum"
           /\ rows'[Len(rows')].amount \notin {Some(LongValue), Some(-LongValue)}
           /\ rows'[Len(rows')].balance \notin {Some(LongValue), Some(-LongValue)}

(* C24: in the account, home loan and youth saver parsers a digit string of
   more than ten digits without a decimal point inside a block is appended to
   the description of the record; it is not dropped and is no debit, credit
   or balance. *)
C24_ReferenceInDescription ==
    [][/\ AccountBlockStarts => KeepsReference(AccountBlockAtCursor)
       /\ HomeLoanBlockStarts => KeepsReference(HomeLoanBlockAtCursor)
       /\ YouthSaverBlockStarts => KeepsReference(YouthSaverBlockAtCursor)]_vars

(* A page that is no notice letter and names the product. *)
ProductPages(d) == {p \in 1..Len(d) : ~IsNoticeLetterPage(d[p]) /\ IsStatementPage(d[p])}

(* No page of the document holds a statement period. *)
PeriodMissing(d) == \A p \in 1..Len(d) : PeriodLines(d[p]) = {}

(* C25: when the validation of the statement type fails in the account
   driver (no page outside the notice letters names the product, or the
   statement period is missing) the run aborts before parsing starts and no
   output exists, not even the header row. *)
C25_InvalidStatementAborts ==
    (/\ parser = "account"
     /\ main.phase \notin {"none", "check"}
     /\ (ProductPages(doc) = {} \/ PeriodMissing(doc)))
      => (/\ main.phase = "aborted"
          /\ main.out = None
          /\ pc = "main"
          /\ rows = <<>>)

(* The period is missing on a statement that names the product and holds
   transactions, and the run has aborted. *)
C25_Witness ==
    /\ parser = "account"
    /\ main.phase = "aborted"
    /\ ProductPages(doc) # {}
    /\ PeriodMissing(doc)
    /\ \E p \in 1..Len(doc) : \E n \in 1..Len(doc[p]) : StartsLikeDate(doc[p][n])

(* C26: the Mastercard driver warns exactly when the final running balance
   differs from the declared closing balance by more than 0.01, and in both
   cases the output with all parsed rows is written. *)
C26_WarningOnlyAboveTolerance ==
    (parser = "mastercard" /\ main.phase = "written")
      => (/\ main.warned <=> (Abs(Val(running_balance) - Val(main.closing)) > 1)
          /\ main.out = Some(rows))

(* A transaction block in its regular order: description lines of plain
   words, one amount line "-A" or "A", one balance line "$B DR" or "$B CR". *)
WellFormedBlock(cl) ==
    /\ Len(cl) >= 3
    /\ cl[Len(cl)].k = "bal"
    /\ cl[Len(cl) - 1].k \in {"neg", "num"}
    /\ cl[Len(cl) - 1].v > 0
    /\ \A n \in 1..(Len(cl) - 2) : cl[n].k = "text"
    /\ ~IsBalanceMarker(SubSeq(cl, 1, Len(cl) - 2))

(* C27: in the account parser a well-formed transaction block on one page
   (date token, description lines, one amount line "-A" or "A", one balance
   line "$B DR" or "$B CR") yields exactly one record, with the description
   lines in order, amount -A for "-A" and +A for "A", and balance -B for DR
   and +B for CR. *)
C27_BlockRoundTrip ==
    [][(AccountBlockStarts /\ WellFormedBlock(AccountBlockAtCursor))
       => LET cl == AccountBlockAtCursor
              a == cl[Len(cl) - 1]
              b == cl[Len(cl)]
          IN rows' = Append(rows,
                 [date |-> AccountDateOf(Lines[i], current_year, last_month).fd,
                  transaction |-> SubSeq(cl, 1, Len(cl) - 2),
                  amount |-> Some(IF a.k = "neg" THEN -a.v ELSE a.v),
                  balance |-> Some(IF b.s = "DR" THEN -b.v ELSE b.v)])]_vars

(* A credit under two description lines with a DR balance has been emitted. *)
C27_Witness ==
    /\ parser = "account"
    /\ rows # <<>>
    /\ rows[Len(rows)].transaction = <<Text("SHOP"), Text("MORE")>>
    /\ rows[Len(rows)].amount = Some(500)
    /\ rows[Len(rows)].balance = Some(-9500)

(* The entries of the cache as it was before the last call that hold a rate
   of the currency under a calendar date. *)
DatedEntries(cache, cur) ==
    {n \in 1..Len(cache) : cache[n].currency = cur /\ Strptime(cache[n].date) # None}

(* C28: get_exchange_rate returns the rate cached under the exact (date,
   currency) key when there is one; otherwise, for a calendar date and a
   currency with a dated rate in the cache, it returns a cached rate of the
   currency whose date is nearest to the requested date; in both cases the
   cache stays as it was and no remote lookup is made. *)
C28_CachedRateReturned ==
    [][\A ds \in RequestDates, cur \in SeedCurrencies :
         (rate_call'.date = ds /\ rate_call'.currency = cur /\ rate_call' # rate_call)
           => LET cache == exchange_rate_cache
                  exact == {n \in 1..Len(cache) :
                              cache[n].date = ds /\ cache[n].currency = cur}
              IN /\ exact # {}
                    => /\ \E n \in exact : rate_call'.result = cache[n].rate
                       /\ rate_call'.lookups = 0
                       /\ exchange_rate_cache' = cache
                 /\ (exact = {} /\ Strptime(ds) # None /\ DatedEntries(cache, cur) # {})
                    => /\ \E n \in DatedEntries(cache, cur) :
                             /\ rate_call'.result = cache[n].rate
                             /\ rate_call'.result_date = cache[n].date
                             /\ \A m \in DatedEntries(cache, cur) :
                                   Abs(Val(Strptime(cache[n].date)) - Val(Strptime(ds)))
                                     <= Abs(Val(Strptime(cache[m].date)) - Val(Strptime(ds)))
                       /\ rate_call'.lookups = 0
                       /\ exchange_rate_cache' = cache]_vars

(* A call for 30 Aug 2025 in CNY on a cache that holds CNY rates of 2 Sep and
   of 29 Aug, in this order, has returned the rate of 29 Aug. *)
C28_Witness ==
    /\ rate_call.date = D(2025, 8, 30)
    /\ rate_call.currency = "CNY"
    /\ rate_call.result_date = D(2025, 8, 29)
    /\ rate_call.lookups = 0
    /\ Len(exchange_rate_cache) = 2
    /\ exchange_rate_cache[1].date = D(2025, 9, 2)
    /\ exchange_rate_cache[1].currency = "CNY"

(* The sums R + s1*a1 + ... + sn*an over every choice of signs. *)
RECURSIVE SignedSums(_, _, _)
SignedSums(txs, n, acc) ==
    IF n > Len(txs) THEN {acc}
    ELSE SignedSums(txs, n + 1, acc - txs[n].amt) \cup SignedSums(txs, n + 1, acc + txs[n].amt)

(* C29: in the NAB parser, for a day with several amounts, a day-end balance
   E and a known running balance R: whenever some assignment of signs to the
   amounts makes R plus the signed amounts equal E, the records of the day
   carry such an assignment (the balance after the last of them is E),
   whatever the hints. *)
C29_ConsistentSignsFound ==
    [][(/\ NabStartsDay
        /\ Len(NabTxnsAtCursor) >= 2
        /\ NabDayAtCursor.deb # None
        /\ running_balance # None
        /\ Val(NabDayAtCursor.deb) \in SignedSums(NabTxnsAtCursor, 1, Val(running_balance)))
       => LET n == Len(NabTxnsAtCursor)
          IN /\ Len(rows') >= Len(rows) + n
             /\ rows'[Len(rows) + n].balance = NabDayAtCursor.deb]_vars

(* C30: parse_transactions of the NAB parser terminates on every finite
   document: the scan, resumed after each block at the line the collection
   reached, comes to the end of the last page (or the run ends in an error),
   also when the collection of a day ran on to a later page and the page it
   began on holds date tokens without a year of two different months. *)
C30_ScanTerminates == <>(pc \in {"done", "crashed"})

(* The description line a line of the document gives to a transaction. *)
DescriptionOf(l) == IF l.k = "dots" THEN Text(l.s) ELSE l

(* The places of the document that hold the description line t. *)
PlacesOf(t) ==
    {pn \in UNION {{<<p, n>> : n \in 1..Len(doc[p])} : p \in 1..Len(doc)} :
        /\ HasLetters(doc[pn[1]][pn[2]])
        /\ DescriptionOf(doc[pn[1]][pn[2]]) = t}

(* The records whose description begins with the line t. *)
RowsOf(t) == {n \in 1..Len(rows) : rows[n].transaction # <<>> /\ rows[n].transaction[1] = t}

(* C31: in the NAB parser every transaction of the document is emitted at
   most once: the records whose description begins with a given line are no
   more than the places of the document that hold this line, also after a
   day whose collection ran on to a later page. *)
C31_EmittedOnce ==
    parser = "nab" =>
        \A n \in 1..Len(rows) :
            rows[n].transaction # <<>> =>
                Cardinality(RowsOf(rows[n].transaction[1]))
                    <= Cardinality(PlacesOf(rows[n].transaction[1]))

(* A step of the Mastercard parser that finalises the pending transaction
   into a record with a date. *)
CardFinalised ==
    /\ parser = "mastercard"
    /\ CardPending(current_transaction)
    /\ current_transaction' # current_transaction
    /\ Len(rows') > Len(rows)
    /\ rows'[Len(rows) + 1].transaction = Val(current_transaction).parts
    /\ rows'[Len(rows) + 1].date # None

(* C32: in the Mastercard parser every finalised transaction moves the date
   cursor to its own year and month, whether it is finalised by the next
   date token, by the table-end marker or by the end of the page. *)
C32_FinaliseMovesCursor ==
    [][CardFinalised =>
          /\ current_year' = Val(rows'[Len(rows) + 1].date).y
          /\ last_month' = Some(Val(rows'[Len(rows) + 1].date).m)]_vars

(* C33: every record of the Mastercard parser carries a date DD/MM/YYYY: a
   pending transaction whose date token cannot be parsed is not emitted,
   whichever path finalises it. *)
C33_RecordsCarryDate ==
    parser = "mastercard" => \A n \in 1..Len(rows) : rows[n].date # None

(* The header of the CBA account table is recognised at a line of the page
   before line n. *)
HeaderBefore(ls, n) == \E q \in 1..(n - 1) : q <= Len(ls) /\ HeaderRecognisedAt(ls, q)

(* C34: in the CBA account parser the header state is per page: a step that
   adds a record stands at a line behind the recognised table header of its
   own page, so that lines before the header, and pages without a header,
   give no records. *)
C34_HeaderPerPage ==
    [][(parser = "account" /\ rows' # rows) => HeaderBefore(Lines, i)]_vars

(* The scan of a document of two pages has ended: the second page holds the
   date token 31 Dec with an amount and no header, and no record of 31 Dec
   was built. *)
C34_Witness ==
    /\ parser = "account"
    /\ pc = "done"
    /\ Len(doc) = 2
    /\ ~HeaderBefore(doc[2], Len(doc[2]) + 1)
    /\ \E n \in 1..(Len(doc[2]) - 1) :
           doc[2][n] = DateTok(31, "dec") /\ doc[2][n + 1] = Neg(700)
    /\ \A n \in 1..Len(rows) : Val(rows[n].date).d # 31

(* C35: in the home loan parser no line is scanned on a page that precedes
   the first statement page of the document, whatever the layout of the
   pages, also when the first statement page is the last page. *)
C35_StartsAtStatementPage ==
    [][(/\ parser = "homeloan"
        /\ HomeLoanAtLine
        /\ i' # i
        /\ FirstStatementPage(doc) # None)
       => page_idx >= Val(FirstStatementPage(doc))]_vars

(* C36: no record of the CBA account, home loan, youth saver and NAB parsers
   has a description that holds "opening balance" or "closing balance", in
   whatever case of letters, on one line or over two joined lines. *)
C36_NoBalanceMarkerRecord ==
    parser \in {"account", "homeloan", "youthsaver", "nab"} =>
        \A n \in 1..Len(rows) : ~IsBalanceMarker(rows[n].transaction)

(* The scan has ended on a document whose row of 02 Dec is "CLOSING BALANCE"
   with an amount and a balance: the one record is that of 31 Dec. *)
C36_Witness ==
    /\ parser \in {"account", "homeloan", "youthsaver"}
    /\ pc = "done"
    /\ \E n \in 1..(Len(doc[Len(doc)]) - 2) :
           /\ doc[Len(doc)][n] = Text("CLOSING BALANCE")
           /\ doc[Len(doc)][n + 1] = Num(500)
    /\ Len(rows) = 1
    /\ rows[1].date = Some(Date(31, 12, 2020))

(* The last line of the block, from line lo on, that is a number with DR or
   CR, or 0. *)
LastBalanceLine(cl, lo) ==
    LET S == {n \in lo..Len(cl) : cl[n].k = "bal"}
    IN IF S = {} THEN 0 ELSE CHOOSE n \in S : \A m \in S : m <= n

(* The record the step emits carries the balance of line n of the block. *)
CarriesBalanceOf(cl, n) ==
    (n # 0 /\ Len(rows') > Len(rows))
        => rows'[Len(rows')].balance = Some(IF cl[n].s = "DR" THEN -cl[n].v ELSE cl[n].v)

(* C37: in the CBA account and home loan parsers, once the balance of a block
   was parsed from a number with DR or CR (in the account parser: from a line
   behind the description), no later line of the block makes it unknown
   again: the record of the block carries the balance of the last such
   line. *)
C37_BalanceKept ==
    [][/\ AccountBlockStarts
          => CarriesBalanceOf(AccountBlockAtCursor,
                 LastBalanceLine(AccountBlockAtCursor,
                     AccountFirstPass(AccountBlockAtCursor, 1, <<>>).idx))
       /\ HomeLoanBlockStarts
          => CarriesBalanceOf(HomeLoanBlockAtCursor,
                 LastBalanceLine(HomeLoanBlockAtCursor, 1))]_vars

(* The last line of the page before line n that is a number with DR or CR,
   or 0: the last balance figure seen in the table. *)
LastBalBefore(ls, n) ==
    LET S == {m \in 1..(n - 1) : ls[m].k = "bal"}
    IN IF S = {} THEN 0 ELSE CHOOSE m \in S : \A q \in S : q <= m

(* C38: in the youth saver parser an unsigned amount taken as a credit is
   emitted as a debit whenever the balance of its block is the preceding
   balance less the amount, the preceding balance being the last balance
   figure of the table, that of the "Opening Balance" row included. *)
C38_DebitByBalance ==
    [][(/\ YouthSaverBlockStarts
        /\ LET st == YouthSaverClassify(YouthSaverBlockAtCursor)
               m == LastBalBefore(Lines, i)
           IN /\ m # 0
              /\ ~IsBalanceMarker(st.parts)
              /\ st.debit = None
              /\ st.credit # None
              /\ st.balance # None
              /\ Val(st.credit) > 0
              /\ SignedBalance(st) =
                     Some((IF Lines[m].s = "DR" THEN -Lines[m].v ELSE Lines[m].v)
                              - Val(st.credit)))
       => /\ Len(rows') = Len(rows) + 1
          /\ rows'[Len(rows')].amount =
                 Some(-Val(YouthSaverClassify(YouthSaverBlockAtCursor).credit))]_vars

(* C39: in the NAB parser, when the running balance is unknown (no opening
   balance on the first page), the one transaction of the first day with a
   day-end balance takes its sign from the hint of its amount line, not from
   the comparison of the day-end balance with a balance of zero. *)
C39_HintWithoutOpening ==
    [][(/\ NabStartsDay
        /\ Len(NabTxnsAtCursor) = 1
        /\ NabTxnsAtCursor[1].amt # 0
        /\ ~NabSkipDesc(NabTxnsAtCursor[1].desc)
        /\ NabDayAtCursor.deb # None
        /\ ~NabDayAtCursor.crash
        /\ running_balance = None)
       => /\ Len(rows') = Len(rows) + 1
          /\ LastRow(rows').amount =
                 Some(IF NabTxnsAtCursor[1].hint
                      THEN -NabTxnsAtCursor[1].amt ELSE NabTxnsAtCursor[1].amt)]_vars

====
